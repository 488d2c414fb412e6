----------------------------- MODULE UploadProofs -----------------------------
(***************************************************************************)
(* The verdict on an upload is the one of the reference, for every limit,  *)
(* every length of a read, and bodies of any length and number of members. *)
(***************************************************************************)
EXTENDS Upload, TLAPS

TypeOK ==
  /\ pc \in {"received", "read", "open", "test", "done"}
  /\ upload \in Upload
  /\ read \in Nat /\ kept \in Nat
  /\ next \in Nat \ {0}

\* What the handler knows of the body that it has read so far.
BodyKnown ==
  /\ read <= upload.length
  /\ pc # "done" => read = kept /\ verdict = "none"
  /\ pc \in {"read", "open", "test"} => upload.named
  /\ pc \in {"open", "test"} => read = upload.length /\ kept > 0
  /\ pc \in {"received", "read", "open"} => next = 1

\* What it knows of the container.
MembersKnown ==
  pc = "test" =>
    /\ upload.directory = "sound"
    /\ next <= Len(upload.members) + 1
    /\ \A i \in 1..(next - 1) : Opened(i).data = "sound"

UploadInv ==
  TypeOK /\ BodyKnown /\ MembersKnown /\ AcceptsDocumentsOnly /\ LimitIsExact

-----------------------------------------------------------------------------

LEMMA MembersAreSequence ==
  ASSUME TypeOK
  PROVE  /\ Len(upload.members) \in Nat
         /\ DOMAIN upload.members = 1..Len(upload.members)
<1>1. upload.members \in UNION {[1..n -> Member] : n \in 0..MaxMembers}
  BY DEF TypeOK, Upload
<1>2. PICK n \in 0..MaxMembers : upload.members \in [1..n -> Member]
  BY <1>1
<1>3. n \in Nat
  BY <1>2, UploadAssumption
<1>4. upload.members \in Seq(Member) /\ Len(upload.members) = n
  BY <1>2, <1>3
<1> QED
  BY <1>2, <1>3, <1>4

LEMMA InitUpload == Init => UploadInv
<1> SUFFICES ASSUME Init PROVE UploadInv
  OBVIOUS
<1>1. TypeOK
  BY DEF Init, TypeOK
<1> QED
  BY <1>1, UploadAssumption
     DEF Init, UploadInv, BodyKnown, MembersKnown, AcceptsDocumentsOnly,
         LimitIsExact, Upload

\* The steps that read the body: its length is compared before it is kept.
LEMMA ReadingKeeps ==
  ASSUME UploadInv, CheckName \/ ReadChunk \/ EndOfBody
  PROVE  UploadInv'
<1> USE UploadAssumption DEF UploadInv
<1>1. upload' = upload /\ next' = next /\ upload.length \in Nat
  BY DEF TypeOK, Upload, CheckName, ReadChunk, EndOfBody, Answer
<1>2. NextChunk \in Nat /\ NextChunk <= Chunk /\ read + NextChunk <= upload.length
      /\ (NextChunk = 0 => read = upload.length)
  BY <1>1 DEF NextChunk, TypeOK, BodyKnown
<1>3. CASE CheckName
  BY <1>1, <1>3
     DEF CheckName, Answer, TypeOK, BodyKnown, MembersKnown,
         AcceptsDocumentsOnly, LimitIsExact
<1>4. CASE ReadChunk
  <2>1. pc = "read" /\ upload.named /\ read = kept /\ verdict = "none"
    BY <1>4 DEF ReadChunk, BodyKnown
  <2>2. CASE OverLimit(read')
    <3>1. pc' = "done" /\ verdict' = "FILE_TOO_LARGE" /\ kept' = kept
      BY <1>4, <2>2 DEF ReadChunk, Answer
    <3>2. read' = read + NextChunk /\ read' > Limit
      BY <1>4, <2>2 DEF ReadChunk, OverLimit
    <3> QED
      BY <1>1, <1>2, <2>1, <3>1, <3>2
         DEF TypeOK, BodyKnown, MembersKnown, AcceptsDocumentsOnly,
             LimitIsExact, TooLarge
  <2>3. CASE ~ OverLimit(read')
    <3>1. /\ pc' = "read" /\ verdict' = "none"
          /\ kept' = kept + NextChunk /\ read' = read + NextChunk
          /\ read' <= Limit
      BY <1>2, <1>4, <2>1, <2>3 DEF ReadChunk, Answer, OverLimit, TypeOK
    <3> QED
      BY <1>1, <1>2, <2>1, <3>1
         DEF TypeOK, BodyKnown, MembersKnown, AcceptsDocumentsOnly, LimitIsExact
  <2> QED
    BY <2>2, <2>3
<1>5. CASE EndOfBody
  BY <1>1, <1>2, <1>5
     DEF EndOfBody, Answer, TypeOK, BodyKnown, MembersKnown,
         AcceptsDocumentsOnly, LimitIsExact, TooLarge
<1> QED
  BY <1>3, <1>4, <1>5

\* A container is looked at only when its body has been read to the end.
LEMMA BodyIsWithinLimit ==
  ASSUME UploadInv, pc \in {"open", "test"}
  PROVE  upload.named /\ upload.length > 0 /\ ~ TooLarge
<1> QED
  BY UploadAssumption DEF UploadInv, TypeOK, Upload, BodyKnown, LimitIsExact, TooLarge

\* A verdict of the validation fits if it is "accept" for documents only.
LEMMA VerdictFits ==
  ASSUME UploadInv, pc \in {"open", "test"}, NEW code, Answer(code),
         UNCHANGED read,
         code # "FILE_TOO_LARGE", code = "accept" <=> IsDocument
  PROVE  UploadInv'
<1>1. upload.named /\ upload.length > 0 /\ ~ TooLarge
  BY BodyIsWithinLimit
<1>2. /\ pc' = "done" /\ verdict' = code
      /\ upload' = upload /\ kept' = kept /\ next' = next
  BY DEF Answer
<1>3. (IsDocument' <=> IsDocument) /\ (TooLarge' <=> TooLarge)
  BY <1>2 DEF IsDocument, TooLarge, Opened
<1> QED
  BY <1>1, <1>2, <1>3
     DEF UploadInv, TypeOK, BodyKnown, MembersKnown, AcceptsDocumentsOnly,
         LimitIsExact

LEMMA OpenKeeps ==
  ASSUME UploadInv, OpenContainer
  PROVE  UploadInv'
<1>1. CASE upload.directory # "sound"
  <2>1. Answer(CodeOf(upload.directory))
    BY <1>1 DEF OpenContainer
  <2>2. ~ IsDocument
    BY <1>1 DEF IsDocument
  <2> QED
    BY <2>1, <2>2, VerdictFits DEF OpenContainer, CodeOf
<1>2. CASE upload.directory = "sound"
  <2>1. /\ pc = "open" /\ pc' = "test"
        /\ UNCHANGED <<upload, read, kept, next, verdict>>
    BY <1>2 DEF OpenContainer
  <2>2. next = 1
    BY <2>1 DEF UploadInv, BodyKnown
  <2>3. MembersKnown'
    BY <1>2, <2>1, <2>2, MembersAreSequence DEF MembersKnown, UploadInv
  <2> QED
    BY <2>1, <2>3
       DEF UploadInv, TypeOK, BodyKnown, AcceptsDocumentsOnly, LimitIsExact
<1> QED
  BY <1>1, <1>2

\* The member that is tested next is the first that may not be sound.
LEMMA TestKeeps ==
  ASSUME UploadInv, TestMember
  PROVE  UploadInv'
<1>1. next \in DOMAIN upload.members /\ pc = "test"
  BY DEF TestMember, MembersToTest
<1>2. CASE Opened(next).data # "sound"
  <2>1. Answer(CodeOf(Opened(next).data))
    BY <1>2 DEF TestMember
  <2>2. ~ IsDocument
    BY <1>1, <1>2 DEF IsDocument
  <2> QED
    BY <1>1, <2>1, <2>2, VerdictFits DEF TestMember, CodeOf
<1>3. CASE Opened(next).data = "sound"
  <2>1. next' = next + 1 /\ UNCHANGED <<pc, upload, read, kept, verdict>>
    BY <1>3 DEF TestMember
  <2>2. /\ Len(upload.members) \in Nat /\ next \in 1..Len(upload.members)
        /\ DOMAIN upload.members = 1..Len(upload.members)
    BY <1>1, MembersAreSequence DEF UploadInv
  <2>3. \A i \in 1..next : Opened(i).data = "sound"
    BY <1>1, <1>3, <2>2 DEF UploadInv, MembersKnown
  <2>4. \A i \in 1..next : Opened(i)' = Opened(i)
    BY <2>1 DEF Opened
  <2>5. next' - 1 = next /\ next' <= Len(upload'.members) + 1
    BY <2>1, <2>2
  <2>6. MembersKnown'
    BY <1>1, <2>1, <2>3, <2>4, <2>5 DEF UploadInv, MembersKnown
  <2> QED
    BY <1>1, <2>1, <2>2, <2>6
       DEF UploadInv, TypeOK, BodyKnown, AcceptsDocumentsOnly, LimitIsExact
<1> QED
  BY <1>2, <1>3

LEMMA CheckNamesKeeps ==
  ASSUME UploadInv, CheckNames
  PROVE  UploadInv'
<1>1. pc = "test" /\ next \notin DOMAIN upload.members
  BY DEF CheckNames, MembersToTest
<1>2. /\ upload.directory = "sound"
      /\ \A i \in DOMAIN upload.members : Opened(i).data = "sound"
  BY <1>1, MembersAreSequence DEF UploadInv, TypeOK, MembersKnown
<1>3. Incomplete <=> ~ IsDocument
  BY <1>2 DEF Incomplete, Names, IsDocument
<1>4. CASE Incomplete
  BY <1>1, <1>3, <1>4, VerdictFits DEF CheckNames
<1>5. CASE ~ Incomplete
  BY <1>1, <1>3, <1>5, VerdictFits DEF CheckNames
<1> QED
  BY <1>4, <1>5

-----------------------------------------------------------------------------

\* Every step of the handler keeps what it knows of the upload.
THEOREM UploadStep == UploadInv /\ [Next]_vars => UploadInv'
<1> SUFFICES ASSUME UploadInv, [Next]_vars PROVE UploadInv'
  OBVIOUS
<1>1. CASE CheckName \/ ReadChunk \/ EndOfBody
  BY <1>1, ReadingKeeps
<1>2. CASE OpenContainer
  BY <1>2, OpenKeeps
<1>3. CASE TestMember
  BY <1>3, TestKeeps
<1>4. CASE CheckNames
  BY <1>4, CheckNamesKeeps
<1>5. CASE UNCHANGED vars
  <2>1. /\ IsDocument' = IsDocument /\ TooLarge' = TooLarge
        /\ \A i : Opened(i)' = Opened(i)
    BY <1>5 DEF vars, IsDocument, TooLarge, Opened
  <2> QED
    BY <1>5, <2>1
       DEF vars, UploadInv, TypeOK, BodyKnown, MembersKnown,
           AcceptsDocumentsOnly, LimitIsExact
<1> QED
  BY <1>1, <1>2, <1>3, <1>4, <1>5 DEF Next

(* What the handler knows of the upload holds in every state of the run.      *)
THEOREM UploadInvariant == Spec => []UploadInv
<1> QED
  BY InitUpload, UploadStep, PTL DEF Spec

(* validate_docx and the checks before it let through exactly the documents  *)
(* within the limit.                                                         *)
THEOREM OnlyDocumentsAccepted == Spec => []AcceptsDocumentsOnly
<1>1. UploadInv => AcceptsDocumentsOnly
  BY DEF UploadInv
<1> QED
  BY <1>1, UploadInvariant, PTL

(* _read_capped refuses exactly what is longer than max_upload_bytes, and    *)
(* holds no more, whatever the length of a read.                             *)
THEOREM LimitKept == Spec => []LimitIsExact
<1>1. UploadInv => LimitIsExact
  BY DEF UploadInv
<1> QED
  BY <1>1, UploadInvariant, PTL
=============================================================================
