------------------------------ MODULE FileImport ------------------------------
(***************************************************************************)
(* Importing an instrument's export file (SessionFromFileService.create):  *)
(* a request looks the bytes up by digest, parses them, stores the         *)
(* original, and only then creates the session in a transaction.  The      *)
(* lookup, the store and the commit are separate steps, several server     *)
(* processes serve requests, and any of them may be killed.                *)
(*                                                                         *)
(* A file stands for its bytes (its digest); all files here are exports of *)
(* one instrument, which is how far the lookup reaches.                    *)
(***************************************************************************)
EXTENDS Integers, FiniteSets

CONSTANTS
    Files,          \* the exports an instrument may produce
    Unreadable,     \* the ones the parser refuses (unknown column, no rows)
    Handlers,       \* server processes
    MaxUploads,     \* bound: uploads made by hand
    MaxFaults,      \* bound: how often storage, database or disk fail
    MaxKills,       \* bound: how many processes are killed
    NoFile

ASSUME FilesAssumption == Unreadable \subseteq Files /\ NoFile \notin Files
ASSUME ImportBounds == {MaxUploads, MaxFaults, MaxKills} \subseteq Nat

VARIABLES
    sessions,       \* how many sessions were created from each file
    bytes,          \* how many copies of each file storage retains
    request,        \* what each process is doing, and on which file
    failed,         \* history: the files whose store or commit has failed
    races,          \* history: how often each file's import met another one
    leaks,          \* how many copies could not be discarded
    uploads, faults, kills

importVars == <<sessions, bytes, request, failed, races, leaks, uploads,
                faults, kills>>

(* A request is authenticated ("connecting"), looked up ("arrived"),       *)
(* stored ("importing"), committed ("stored"), and then answered: 201, 200 *)
(* (the bytes were already held), 400 or 401.                              *)
Answers == {"created", "held", "refused", "denied"}
Accepted == {"created", "held"}
NoRequest == [pc |-> "idle", file |-> NoFile, named |-> FALSE]
RequestState ==
    [pc : {"idle", "connecting", "arrived", "importing", "stored"}
            \cup Answers,
     file : Files \cup {NoFile}, named : BOOLEAN]

ImportTypeOK ==
    /\ sessions \in [Files -> Nat]
    /\ bytes \in [Files -> Nat]
    /\ request \in [Handlers -> RequestState]
    /\ failed \subseteq Files /\ races \in [Files -> Nat]
    /\ {leaks, uploads, faults, kills} \subseteq Nat

ImportInit ==
    /\ sessions = [f \in Files |-> 0]
    /\ bytes = [f \in Files |-> 0]
    /\ request = [h \in Handlers |-> NoRequest]
    /\ failed = {} /\ races = [f \in Files |-> 0] /\ leaks = 0
    /\ uploads = 0 /\ faults = 0 /\ kills = 0

Goto(h, pc) == request' = [request EXCEPT ![h].pc = pc]
Drop(h) == request' = [request EXCEPT ![h] = NoRequest]
FaultHappens == faults < MaxFaults /\ faults' = faults + 1
Fails(h) == FaultHappens /\ failed' = failed \cup {request[h].file}

(* The processes that are past the lookup of f and not yet answered.       *)
Importing(f) ==
    {h \in Handlers : /\ request[h].pc \in {"importing", "stored"}
                      /\ request[h].file = f}
Meeting(f) ==
    races' = [races EXCEPT ![f] = IF Importing(f) = {} THEN @ ELSE @ + 1]

(* An inspector uploads the file by hand, and may name the new folder.     *)
Upload(h, f, named) ==
    /\ request[h].pc = "idle"
    /\ uploads < MaxUploads
    /\ uploads' = uploads + 1
    /\ request' = [request EXCEPT ![h] =
                      [pc |-> "arrived", file |-> f, named |-> named]]
    /\ UNCHANGED <<sessions, bytes, failed, races, leaks, faults, kills>>

(* The same bytes arriving twice is a resend: answered with the session.   *)
AnswerHeld(h) ==
    /\ request[h].pc = "arrived"
    /\ sessions[request[h].file] > 0
    /\ Goto(h, "held")
    /\ UNCHANGED <<sessions, bytes, failed, races, leaks, uploads, faults,
                   kills>>

RefuseBytes(h) ==
    /\ request[h].pc = "arrived"
    /\ sessions[request[h].file] = 0
    /\ request[h].file \in Unreadable
    /\ Goto(h, "refused")
    /\ UNCHANGED <<sessions, bytes, failed, races, leaks, uploads, faults,
                   kills>>

(* mutant of Parse: the bytes are not looked up *)
ParseUnchecked(h) ==
    /\ request[h].pc = "arrived"
    /\ request[h].file \notin Unreadable
    /\ Meeting(request[h].file)
    /\ Goto(h, "importing")
    /\ UNCHANGED <<sessions, bytes, failed, leaks, uploads, faults, kills>>

Parse(h) ==
    /\ request[h].pc = "arrived"
    /\ sessions[request[h].file] = 0
    /\ request[h].file \notin Unreadable
    /\ Meeting(request[h].file)
    /\ Goto(h, "importing")
    /\ UNCHANGED <<sessions, bytes, failed, leaks, uploads, faults, kills>>

Store(h) ==
    /\ request[h].pc = "importing"
    /\ bytes' = [bytes EXCEPT ![request[h].file] = @ + 1]
    /\ Goto(h, "stored")
    /\ UNCHANGED <<sessions, failed, races, leaks, uploads, faults, kills>>

(* A storage that is down is a refusal like any other.                     *)
StoreFail(h) ==
    /\ request[h].pc = "importing"
    /\ Fails(h)
    /\ Goto(h, "refused")
    /\ UNCHANGED <<sessions, bytes, races, leaks, uploads, kills>>

(* The folder name is looked up after the store and outside the block that *)
(* discards the bytes of an import that fails.                             *)
NameTaken(h) ==
    /\ request[h].pc = "stored"
    /\ request[h].named
    /\ Goto(h, "refused")
    /\ UNCHANGED <<sessions, bytes, failed, races, leaks, uploads, faults,
                   kills>>

(* mutant of Commit: answered before the transaction has committed *)
CommitLater(h) ==
    /\ request[h].pc = "stored"
    /\ Goto(h, "created")
    /\ UNCHANGED <<sessions, bytes, failed, races, leaks, uploads, faults,
                   kills>>

Commit(h) ==
    /\ request[h].pc = "stored"
    /\ sessions' = [sessions EXCEPT ![request[h].file] = @ + 1]
    /\ Goto(h, "created")
    /\ UNCHANGED <<bytes, failed, races, leaks, uploads, faults, kills>>

(* mutants of CommitFail: the bytes of the failed import stay; every copy  *)
(* of them is removed *)
CommitFailKeepsBytes(h) ==
    /\ request[h].pc = "stored"
    /\ Fails(h)
    /\ Goto(h, "refused")
    /\ UNCHANGED <<sessions, bytes, races, leaks, uploads, kills>>

CommitFailRemovesAll(h) ==
    /\ request[h].pc = "stored"
    /\ Fails(h)
    /\ bytes' = [bytes EXCEPT ![request[h].file] = 0]
    /\ Goto(h, "refused")
    /\ UNCHANGED <<sessions, races, leaks, uploads, kills>>

(* The bytes are discarded, as far as storage lets them: a copy it does    *)
(* not give up is logged and left.                                         *)
CommitFail(h) ==
    /\ request[h].pc = "stored"
    /\ Fails(h)
    /\ \/ /\ bytes' = [bytes EXCEPT ![request[h].file] = @ - 1]
          /\ UNCHANGED leaks
       \/ leaks' = leaks + 1 /\ UNCHANGED bytes
    /\ Goto(h, "refused")
    /\ UNCHANGED <<sessions, races, uploads, kills>>

(* The answer is delivered to nobody in particular.                        *)
Hangup(h) ==
    /\ request[h].pc \in Answers
    /\ Drop(h)
    /\ UNCHANGED <<sessions, bytes, failed, races, leaks, uploads, faults,
                   kills>>

KillHandler(h) ==
    /\ request[h].pc # "idle"
    /\ kills < MaxKills
    /\ kills' = kills + 1
    /\ Drop(h)
    /\ UNCHANGED <<sessions, bytes, failed, races, leaks, uploads, faults>>

Handle(h) ==
    \/ AnswerHeld(h) \/ RefuseBytes(h) \/ Parse(h)
    \/ Store(h) \/ StoreFail(h)
    \/ NameTaken(h) \/ Commit(h) \/ CommitFail(h)

UploadByHand(h) == \E f \in Files, named \in BOOLEAN : Upload(h, f, named)

----------------------------------------------------------------------------
(***************************************************************************)
(* Properties                                                              *)
(***************************************************************************)

(* A resend "must land on the session that already exists rather than      *)
(* filing one measurement twice under two references": the look-up and the *)
(* commit are no one step, so each import that begins while another of the *)
(* same bytes is running may file them once more, and nothing else does.   *)
NoCaptureTwice == \A f \in Files : sessions[f] <= 1 + races[f]

(* The packets are an interpretation: the original of every session is     *)
(* retained, whatever other imports of the same bytes do.                  *)
OriginalsAreKept == \A f \in Files : sessions[f] <= bytes[f]

(* A rejected file leaves nothing behind: each copy that belongs to no     *)
(* session, nor to an import about to commit, is owed to a killed process, *)
(* an upload by hand (NameTaken) or a discard that storage did not carry   *)
(* out.                                                                    *)
Storing(f) ==
    {h \in Handlers : request[h].pc = "stored" /\ request[h].file = f}

NoOrphanBytes ==
    \A f \in Files :
        bytes[f] <= sessions[f] + Cardinality(Storing(f))
                        + kills + uploads + leaks
=============================================================================
