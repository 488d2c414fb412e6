---------------------------- MODULE StartupProofs ----------------------------
(***************************************************************************)
(* The schema is complete for whoever serves, and under docker-compose.yml *)
(* no start fails, for any number of processes.                            *)
(***************************************************************************)
EXTENDS Startup, TLAPS

LEMMA InitSchema == Init => SchemaInv
BY DEF Init, SchemaInv, TypeOK, ServesFullSchema, PlanComplete,
       AloneUntilHealthy, Full, Additions

\* Steps that leave the schema alone.
LEMMA LookKeeps ==
  ASSUME SchemaInv, NEW p \in Process,
         StartUp(p) \/ CheckTable(p) \/ CreateFails(p) \/ AddColumnFails(p)
           \/ Kill(p)
  PROVE  SchemaInv'
<1> USE DEF Goto, SchemaInv
<1>1. TypeOK'
  BY DEF TypeOK, StartUp, CheckTable, CreateFails, AddColumnFails, Kill,
         Additions
<1>2. UNCHANGED <<columns, healthy, ordered>>
  BY DEF StartUp, CheckTable, CreateFails, AddColumnFails, Kill
<1>3. ServesFullSchema'
  BY <1>2 DEF TypeOK, ServesFullSchema, StartUp, CheckTable, CreateFails,
              AddColumnFails, Kill
<1>4. ASSUME NEW q \in Process PROVE PlanComplete(q)'
  BY <1>2 DEF TypeOK, PlanComplete, StartUp, CheckTable, CreateFails,
              AddColumnFails, Kill
<1>5. ASSUME ordered, NEW q \in Process PROVE AloneUntilHealthy(q)'
  <2>1. AloneUntilHealthy(q) /\ AloneUntilHealthy(p)
    BY <1>5
  <2>2. NextColumn(p) \in todo[p] \/ pc[p] # "alter"
    BY DEF TypeOK, PlanComplete, NextColumn, Additions
  <2> QED
    BY <1>2, <1>5, <2>1, <2>2
       DEF TypeOK, AloneUntilHealthy, StartUp, CheckTable, CreateFails,
           AddColumnFails, Kill
<1> QED
  BY <1>1, <1>2, <1>3, <1>4, <1>5

LEMMA CreateTableKeeps ==
  ASSUME SchemaInv, NEW p \in Process, CreateTable(p)
  PROVE  SchemaInv'
<1> USE DEF Goto, SchemaInv, CreateTable
<1>1. TypeOK'
  BY DEF TypeOK
<1>2. columns' = Full /\ UNCHANGED <<healthy, ordered, todo>>
  OBVIOUS
<1>3. ServesFullSchema'
  BY <1>2 DEF ServesFullSchema
<1>4. ASSUME NEW q \in Process PROVE PlanComplete(q)'
  BY <1>2 DEF TypeOK, PlanComplete, Full
<1>5. ASSUME ordered, NEW q \in Process PROVE AloneUntilHealthy(q)'
  <2>1. AloneUntilHealthy(q) /\ AloneUntilHealthy(p)
    BY <1>5
  <2>2. ~ healthy
    BY DEF Full
  <2>3. p = ApiProcess
    BY <2>1, <2>2 DEF AloneUntilHealthy
  <2>4. q # p => pc[q] = "down"
    BY <2>1, <2>2, <2>3 DEF AloneUntilHealthy
  <2> QED
    BY <1>2, <2>1, <2>3, <2>4 DEF TypeOK, AloneUntilHealthy
<1>6. (columns # {} => "base" \in columns)'
  BY <1>2 DEF Full
<1> QED
  BY <1>1, <1>2, <1>3, <1>4, <1>5, <1>6

LEMMA InspectKeeps ==
  ASSUME SchemaInv, NEW p \in Process, Inspect(p)
  PROVE  SchemaInv'
<1> USE DEF Goto, SchemaInv, Inspect, Served
<1>1. TypeOK'
  BY DEF TypeOK, Missing, Additions
<1>2. UNCHANGED <<columns, ordered>>
  OBVIOUS
<1>3. "base" \in columns
  BY DEF PlanComplete
<1>4. Missing(columns) = {} => columns = Full
  BY <1>3 DEF TypeOK, Missing, Full
<1>5. ServesFullSchema'
  BY <1>2, <1>4 DEF TypeOK, ServesFullSchema
<1>6. healthy' => columns' = Full
  BY <1>2, <1>4
<1>7. ASSUME NEW q \in Process PROVE PlanComplete(q)'
  BY <1>2, <1>3 DEF TypeOK, PlanComplete, Missing, Full
<1>8. ASSUME ordered, NEW q \in Process PROVE AloneUntilHealthy(q)'
  <2>1. AloneUntilHealthy(q) /\ AloneUntilHealthy(p)
    BY <1>8
  <2> QED
    BY <1>2, <2>1 DEF TypeOK, AloneUntilHealthy, Missing
<1> QED
  BY <1>1, <1>2, <1>5, <1>6, <1>7, <1>8

LEMMA AddColumnKeeps ==
  ASSUME SchemaInv, NEW p \in Process, AddColumn(p)
  PROVE  SchemaInv'
<1> USE DEF Goto, SchemaInv, AddColumn, Served
<1>0. /\ NextColumn(p) \in todo[p]
      /\ columns \cup todo[p] = Full
      /\ todo[p] \subseteq Additions
  BY DEF TypeOK, PlanComplete, NextColumn, Additions
<1>1. TypeOK'
  BY <1>0 DEF TypeOK, Full
<1>2. /\ columns' = columns \cup {NextColumn(p)}
      /\ todo'[p] = todo[p] \ {NextColumn(p)}
      /\ UNCHANGED ordered
  BY DEF TypeOK
<1>3. columns' \cup todo'[p] = Full
  BY <1>0, <1>2
<1>4. columns # Full
  BY <1>0 DEF Full, Additions
<1>5. ServesFullSchema'
  BY <1>0, <1>2, <1>3, <1>4 DEF TypeOK, ServesFullSchema
<1>6. healthy' => columns' = Full
  BY <1>3, <1>4
<1>7. ("base" \in columns)'
  BY <1>0, <1>2 DEF Full, Additions
<1>8. ASSUME NEW q \in Process PROVE PlanComplete(q)'
  <2>1. CASE q = p
    BY <1>2, <1>3, <2>1 DEF TypeOK, PlanComplete
  <2>2. CASE q # p
    BY <1>0, <1>1, <1>2, <2>2 DEF TypeOK, PlanComplete
  <2> QED
    BY <2>1, <2>2
<1>9. ASSUME ordered, NEW q \in Process PROVE AloneUntilHealthy(q)'
  <2>1. AloneUntilHealthy(q) /\ AloneUntilHealthy(p)
    BY <1>9
  <2>2. p = ApiProcess
    BY <1>4, <2>1 DEF AloneUntilHealthy
  <2>3. q # p => pc[q] = "down"
    BY <1>4, <2>1, <2>2 DEF AloneUntilHealthy
  <2> QED
    BY <1>2, <2>1, <2>2, <2>3 DEF TypeOK, AloneUntilHealthy
<1> QED
  BY <1>1, <1>2, <1>5, <1>6, <1>7, <1>8, <1>9

\* Whatever starts, looks, adds, fails or is killed: the plans of all
\* processes still complete the schema.
THEOREM SchemaStep == SchemaInv /\ [Next]_vars => SchemaInv'
<1> SUFFICES ASSUME SchemaInv, [Next]_vars PROVE SchemaInv'
  OBVIOUS
<1>1. CASE Next
  BY <1>1, LookKeeps, CreateTableKeeps, InspectKeeps, AddColumnKeeps DEF Next
<1>2. CASE UNCHANGED vars
  BY <1>2 DEF vars, SchemaInv, TypeOK, ServesFullSchema, PlanComplete,
              AloneUntilHealthy
<1> QED
  BY <1>1, <1>2

\* In every behaviour the plans of all processes complete the schema.
THEOREM SchemaInvariant == Spec => []SchemaInv
BY InitSchema, SchemaStep, PTL DEF Spec

\* Nobody ever serves with a column missing, in whatever order any number of
\* processes start, race and are killed.
THEOREM FullSchemaServed == Spec => []ServesFullSchema
BY SchemaInvariant, PTL DEF SchemaInv

\* In the order of docker-compose.yml no start ever fails.
THEOREM ComposeIsClean == Spec => []ComposeStartsClean
<1>1. SchemaInv => ComposeStartsClean
  BY DEF SchemaInv, ComposeStartsClean, AloneUntilHealthy
<1> QED
  BY <1>1, SchemaInvariant, PTL
=============================================================================
