--------------------------- MODULE ApiProperties ---------------------------
(***************************************************************************)
(* What the clients of the API may rely on while workers, crashes and      *)
(* damage to the files go on underneath.                                   *)
(***************************************************************************)
EXTENDS Api, WorkerProperties

Place == {"idle", "insert", "inserted", "found", "present", "read"}

\* Every variable of the API holds a value of its kind.
ApiTypeOK ==
  /\ source \subseteq Job
  /\ form \in [Id -> Form]
  /\ at \in [Client -> Place]
  /\ target \in [Client -> Id \cup {NULL}]
  /\ stamp \in [Client -> Time]
  /\ digest \in [Client -> Bytes \cup {NULL}]
  /\ content \in [Client -> Content \cup {NULL}]
  /\ heard \in [Client -> [Id -> [status : Status \cup {"unknown"},
                                  digest : Bytes \cup {NULL}]]]
  /\ cached \in [Client -> [Id -> Content \cup {NULL}]]

\* A row never exists without its source file: a worker that claims it can
\* convert "from the original", whatever upload crashed or failed half-way.
SourcePrecedesRow ==
  \A j \in Job : row[j].status # "absent" => j \in source

\* What a client has downloaded is the PDF that the row of the job has the
\* fingerprint of, now and for ever: no late worker, clean-up, undo or damage
\* between the reads of a download gets other bytes through.  A PDF without
\* fingerprint has at least its header.
DeliveredIsRegistered ==
  \A c \in Client, i \in Id :
    cached[c][i] # NULL =>
      IF i \in Job
      THEN /\ row[i].status = "succeeded"
           /\ cached[c][i] = [pdf |-> row[i].pdf, form |-> "sound"]
      ELSE cached[c][i].form # "headless"

\* A status that a client was told is never taken back: a job stays known, a
\* terminal status stays as it is (so an advertised download URL never turns
\* into JOB_NOT_READY), and an announced fingerprint stays the registered one.
NewsStaysTrue ==
  \A c \in Client, j \in Job :
    LET news == heard[c][j] IN
    /\ news.status # "unknown" => row[j].status # "absent"
    /\ news.status \in {"succeeded", "failed"} => row[j].status = news.status
    /\ news.digest # NULL => row[j].pdf = news.digest

\* As long as nobody damages the file, no worker stalls before its clean-up, no
\* commit of a publish fails and no renewal is left behind, a download of a
\* succeeded job is answered with its PDF: never missing, corrupted or an
\* internal error.
DownloadWorks ==
  \A c \in Client :
    target[c] # NULL /\ form[target[c]] = "sound" =>
      /\ at[c] \in {"found", "present"} => Stored(target[c]) # NULL
      /\ at[c] = "read" => Acceptable(content[c], digest[c])

-----------------------------------------------------------------------------
(* What holds in between. *)

\* A request that is about to insert has written its source, is the only one
\* with this id, and took the time before.
UploadOK(c) ==
  /\ at[c] = "insert" => /\ target[c] \in source
                         /\ stamp[c] <= clock
  /\ at[c] = "inserted" => /\ target[c] \in Job
                           /\ row[target[c]].status # "absent"

\* The row that a download loaded is final, so that its copy stays true.
DownloadOK(c) ==
  at[c] \in {"found", "present", "read"} =>
    /\ target[c] \in Id
    /\ StatusOf(target[c]) = "succeeded"
    /\ digest[c] = DigestOf(target[c])
    /\ at[c] = "read" => content[c] # NULL

\* Preserved by every step of clients and workers, with IInv.
ApiInv ==
  /\ ApiTypeOK
  /\ SourcePrecedesRow
  /\ DeliveredIsRegistered
  /\ NewsStaysTrue
  /\ \A c \in Client : UploadOK(c) /\ DownloadOK(c)

=============================================================================
