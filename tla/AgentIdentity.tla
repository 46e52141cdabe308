---------------------------- MODULE AgentIdentity ----------------------------
(***************************************************************************)
(* registerAgentIdentity and authenticateAgent (agentIdentity.ts) on the   *)
(* AgentIdentityStore.  Both suspend once, for scrypt; the store is a Map  *)
(* rebuilt from its file (JsonlFile) when the process restarts, and the    *)
(* calls in flight die with the process.                                   *)
(***************************************************************************)
EXTENDS Naturals, FiniteSets, JsonlFile

CONSTANTS
    Id,             \* identity ids, the UUIDs a registration may draw
    Subject,        \* agent names
    Call,           \* HTTP requests
    None,
    MaxTurn         \* bound on the saves attempted and the restarts

ASSUME NoneAssumption == None \notin Id \cup Subject

ASSUME MaxTurnAssumption == MaxTurn \in Nat

VARIABLES
    store,          \* AgentIdentityStore's Map
    file,           \* agent-identities.jsonl
    call,           \* the calls in flight and the ones that have ended
    logged,         \* ids the audit log has a registration of
    held,           \* ids whose credential was handed out
    turn            \* saves and restarts so far

vars == <<store, file, call, logged, held, turn>>

\* begun and saved are history: the turns in which the registration began
\* and was saved.
Identity == [subject : Subject \cup {None}, begun : 0..MaxTurn, saved : 0..MaxTurn]

Nobody == [subject |-> None, begun |-> 0, saved |-> 0]

Idle == [pc |-> "idle", id |-> None, subject |-> None, begun |-> 0, outcome |-> "none"]

Known(i) == store[i] # Nobody

Finish(c, outcome) == call' = [call EXCEPT ![c].pc = "done", ![c].outcome = outcome]

-----------------------------------------------------------------------------
(* registerAgentIdentity.  A definition named Buggy... is a plausible      *)
(* mistake in the definition that follows it; no specification uses it.    *)

\* validate(): no identity of the store has the subject.
BuggyTaken(s) == FALSE

Taken(s) == \E i \in Id : store[i].subject = s

RegisterBegin(c, s) ==
    /\ call[c].pc = "idle"
    /\ call' = [call EXCEPT ![c] =
                    IF Taken(s)
                    THEN [Idle EXCEPT !.pc = "done", !.outcome = "duplicate"]
                    ELSE [Idle EXCEPT !.pc = "hash", !.subject = s, !.begun = turn]]
    /\ UNCHANGED <<store, file, logged, held, turn>>

Registered(c) == [subject |-> call[c].subject, begun |-> call[c].begun, saved |-> turn]

Line(c, i) == [id |-> i, identity |-> Registered(c)]

\* AgentIdentityStore.save: the Map, then the file.
Set(c, i) ==
    /\ call[c].pc = "hash" /\ turn < MaxTurn
    /\ ~Known(i) /\ i \notin held
    /\ store' = [store EXCEPT ![i] = Registered(c)]
    /\ turn' = turn + 1

RegisterEnd(c, i) ==
    /\ Set(c, i)
    /\ file' = AppendLine(file, Line(c, i))
    /\ logged' = logged \cup {i} /\ held' = held \cup {i}
    /\ Finish(c, "registered")

\* The append, or the log's after it, throws: no credential leaves, and the
\* entry may be in the log or not.
BuggyRegisterFails(c, i) ==
    /\ Set(c, i)
    /\ file' \in PartlyAppended(file, Line(c, i)) \cup {AppendLine(file, Line(c, i))}
    /\ held' = held \cup {i}
    /\ logged' \in {logged, logged \cup {i}}
    /\ Finish(c, "error")

RegisterFails(c, i) ==
    /\ Set(c, i)
    /\ file' \in PartlyAppended(file, Line(c, i)) \cup {AppendLine(file, Line(c, i))}
    /\ logged' \in {logged, logged \cup {i}}
    /\ Finish(c, "error") /\ UNCHANGED held

-----------------------------------------------------------------------------
(* authenticateAgent, as requireAgentCredential calls it.                  *)

AuthenticateBegin(c, i) ==
    /\ call[c].pc = "idle"
    /\ call' = [call EXCEPT ![c] =
                    IF ~Known(i)
                    THEN [Idle EXCEPT !.pc = "done", !.outcome = "refused"]
                    ELSE [Idle EXCEPT !.pc = "verify", !.id = i,
                                      !.subject = store[i].subject]]
    /\ UNCHANGED <<store, file, logged, held, turn>>

\* The caller knows the secret only if it was handed out.
AuthenticateEnd(c, possessed) ==
    /\ call[c].pc = "verify"
    /\ possessed => call[c].id \in held
    /\ Finish(c, IF possessed THEN "authenticated" ELSE "refused")
    /\ UNCHANGED <<store, file, logged, held, turn>>

-----------------------------------------------------------------------------
\* The constructor replays the file.
Rebuilt(f) ==
    LET lines == EntriesOf(f) IN
    [i \in Id |->
        IF \E l \in lines : l.id = i
        THEN (CHOOSE l \in lines : l.id = i).identity
        ELSE Nobody]

\* The process is killed and started again.
Restart ==
    /\ turn < MaxTurn /\ turn' = turn + 1
    /\ store' = Rebuilt(file)
    /\ call' = [c \in Call |->
                    IF call[c].pc = "done" THEN call[c]
                                           ELSE [Idle EXCEPT !.pc = "done"]]
    /\ UNCHANGED <<file, logged, held>>

Init ==
    /\ store = [i \in Id |-> Nobody] /\ file = NoFile
    /\ call = [c \in Call |-> Idle]
    /\ logged = {} /\ held = {} /\ turn = 0

Next ==
    \/ \E c \in Call, s \in Subject : RegisterBegin(c, s)
    \/ \E c \in Call, i \in Id :
          RegisterEnd(c, i) \/ RegisterFails(c, i) \/ AuthenticateBegin(c, i)
    \/ \E c \in Call, possessed \in BOOLEAN : AuthenticateEnd(c, possessed)
    \/ Restart

Spec == Init /\ [][Next]_vars

-----------------------------------------------------------------------------
(* Properties.                                                             *)

\* Every variable stays in its type.
TypeOK ==
    /\ store \in [Id -> Identity]
    /\ EntriesOf(file) \subseteq [id : Id, identity : Identity]
    /\ \A c \in Call :
          /\ call[c].pc \in {"idle", "hash", "verify", "done"}
          /\ call[c].id \in Id \cup {None}
          /\ call[c].subject \in Subject \cup {None}
    /\ logged \subseteq Id /\ held \subseteq Id
    /\ turn \in 0..MaxTurn

Twins(i, j) == i # j /\ Known(i) /\ Known(j) /\ store[i].subject = store[j].subject

\* Two identities of one subject were registered by calls that overlapped:
\* once a registration is saved no later one gets through, whether or not its
\* save reached the log or its caller (agentIdentity.ts 85-92, 107-113).
DuplicatesOverlap ==
    \A i, j \in Id : Twins(i, j) => store[i].begun <= store[j].saved

\* Whoever is authenticated as an agent holds a credential whose registration
\* by an operator is in the audit log: no failure in the middle of a
\* registration lets an unlogged one through (agentIdentity.ts 113-115).
AuthenticatedWasLogged ==
    \A c \in Call : call[c].outcome = "authenticated" => call[c].id \in logged
=============================================================================
