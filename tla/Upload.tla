------------------------------- MODULE Upload -------------------------------
(***************************************************************************)
(* What POST /jobs does with a body before it touches any shared state:    *)
(* reading it with a cap (_read_capped of app/api.py) and looking into the *)
(* ZIP container (app/validation.py).  Module Api starts with the uploads  *)
(* that end here with "accept".                                            *)
(*                                                                         *)
(* A body is its length and what zipfile finds in it: the directory, and   *)
(* member by member the name and whether its data can be read.             *)
(***************************************************************************)
EXTENDS Naturals, Sequences, FiniteSetsExt, Functions

CONSTANTS
  Limit,       \* max_upload_bytes
  Chunk,       \* the bytes of one read
  MaxLength,   \* bound on the length of a body
  MaxMembers,  \* bound on the members of a container
  OtherName    \* any member name that a DOCX does not have to have

RequiredMembers == {"[Content_Types].xml", "word/document.xml"}

ASSUME UploadAssumption ==
  /\ Limit \in Nat /\ Chunk \in Nat \ {0}
  /\ MaxLength \in Nat /\ MaxMembers \in Nat
  /\ OtherName \notin RequiredMembers

\* What reading a part of the container may give: what was stored, a
\* BadZipFile (wrong checksum, wrong header), or an exception of another kind
\* (zlib.error for a broken stream, RuntimeError for an encrypted member,
\* NotImplementedError for an unknown method, UnicodeDecodeError for a name).
Reading == {"sound", "bad", "raises"}

Member == [name : RequiredMembers \cup {OtherName}, data : Reading]

\* directory "none": no end-of-directory record, is_zipfile says no.
Upload ==
  [named : BOOLEAN,
   length : 0..MaxLength,
   directory : Reading \cup {"none"},
   members : UNION {[1..n -> Member] : n \in 0..MaxMembers}]

\* An empty body holds no container, and without a directory there are no
\* members to speak of.
Possible(u) ==
  /\ u.length = 0 => u.directory = "none"
  /\ u.directory # "sound" => u.members = << >>

VARIABLES
  pc,      \* where the handler is, "done" once it has a verdict
  upload,  \* the request
  read,    \* bytes taken from the request
  kept,    \* bytes held in chunks
  next,    \* the member that testzip reads next
  verdict  \* "accept", or the error code of the answer

vars == <<pc, upload, read, kept, next, verdict>>

Init ==
  /\ upload \in {u \in Upload : Possible(u)}
  /\ pc = "received"
  /\ read = 0
  /\ kept = 0
  /\ next = 1
  /\ verdict = "none"

Answer(code) ==
  /\ pc' = "done"
  /\ verdict' = code
  /\ UNCHANGED <<upload, kept, next>>

-----------------------------------------------------------------------------
(* _read_capped, and the checks before and after it. *)

CheckName ==
  /\ pc = "received"
  /\ UNCHANGED read
  /\ \/ ~ upload.named /\ Answer("NO_FILE")
     \/ /\ upload.named
        /\ pc' = "read"
        /\ UNCHANGED <<upload, kept, next, verdict>>

\* read(n) gives n bytes, or what is left.
NextChunk ==
  IF upload.length - read < Chunk THEN upload.length - read ELSE Chunk

OverLimitLate(total) == total > Limit + Chunk
OverLimitAtBound(total) == total >= Limit
OverLimit(total) == total > Limit

ReadChunk ==
  /\ pc = "read"
  /\ NextChunk > 0
  /\ read' = read + NextChunk
  /\ \/ OverLimit(read') /\ Answer("FILE_TOO_LARGE")
     \/ /\ ~ OverLimit(read')
        /\ kept' = kept + NextChunk
        /\ UNCHANGED <<pc, upload, next, verdict>>

EndOfBody ==
  /\ pc = "read"
  /\ NextChunk = 0
  /\ UNCHANGED read
  /\ \/ kept = 0 /\ Answer("NO_FILE")
     \/ /\ kept > 0
        /\ pc' = "open"
        /\ UNCHANGED <<upload, kept, next, verdict>>

-----------------------------------------------------------------------------
(* validate_docx *)

\* What becomes of an outcome that is not "sound": a BadZipFile is turned into
\* NOT_A_ZIP, and whatever else is raised gets to the handler of unexpected
\* exceptions.  (A UnicodeDecodeError is a ValueError, but its text is no code
\* of HTTP_STATUS, so that APIError raises a KeyError.)
CodeOf(reading) == IF reading = "raises" THEN "INTERNAL_ERROR" ELSE "NOT_A_ZIP"

\* is_zipfile, and ZipFile(), which reads the directory.
OpenContainer ==
  /\ pc = "open"
  /\ UNCHANGED read
  /\ \/ /\ upload.directory # "sound"
        /\ Answer(CodeOf(upload.directory))
     \/ /\ upload.directory = "sound"
        /\ pc' = "test"
        /\ UNCHANGED <<upload, kept, next, verdict>>

\* testzip goes through the members in the order of the directory, stops at
\* the first bad one, and opens each by its name: of members with one name,
\* only the last is ever read.
Opened(i) ==
  upload.members[Max({k \in DOMAIN upload.members :
                        upload.members[k].name = upload.members[i].name})]

MembersToTestRequired ==
  {i \in DOMAIN upload.members : upload.members[i].name \in RequiredMembers}
MembersToTest == DOMAIN upload.members

TestMember ==
  /\ pc = "test"
  /\ next \in MembersToTest
  /\ UNCHANGED read
  /\ \/ /\ Opened(next).data # "sound"
        /\ Answer(CodeOf(Opened(next).data))
     \/ /\ Opened(next).data = "sound"
        /\ next' = next + 1
        /\ UNCHANGED <<pc, upload, kept, verdict>>

Names == {m.name : m \in Range(upload.members)}

IncompleteIfAllMissing == RequiredMembers \cap Names = {}
Incomplete == RequiredMembers \ Names # {}

CheckNames ==
  /\ pc = "test"
  /\ next \notin MembersToTest
  /\ UNCHANGED read
  /\ \/ Incomplete /\ Answer("DOCX_MISSING_PARTS")
     \/ ~ Incomplete /\ Answer("accept")

-----------------------------------------------------------------------------
Next ==
  \/ CheckName \/ ReadChunk \/ EndOfBody
  \/ OpenContainer \/ TestMember \/ CheckNames

Spec == Init /\ [][Next]_vars

-----------------------------------------------------------------------------
(* The reference, as the README's table of codes has it. *)

TooLarge == upload.length > Limit

IsDocument ==
  /\ upload.directory = "sound"
  /\ \A i \in DOMAIN upload.members : Opened(i).data = "sound"
  /\ \A n \in RequiredMembers : \E m \in Range(upload.members) : m.name = n

(* A job may be created exactly for a named upload within the limit that is  *)
(* a readable container with both required parts, however the body falls     *)
(* into chunks, and in whatever order and however often its members occur.   *)
AcceptsDocumentsOnly ==
  pc = "done" =>
    (verdict = "accept" <=>
       upload.named /\ upload.length > 0 /\ ~ TooLarge /\ IsDocument)

(* The length decides before the content does: a named upload is answered    *)
(* with FILE_TOO_LARGE exactly if it is longer than the limit, no matter how *)
(* the limit lies between two chunks; and at no time does the server hold    *)
(* more than the limit, or has it read more than one chunk beyond.           *)
LimitIsExact ==
  /\ pc = "done" /\ upload.named => (verdict = "FILE_TOO_LARGE" <=> TooLarge)
  /\ kept <= Limit
  /\ read <= Limit + Chunk
=============================================================================
