------------------------------ MODULE Recovery ------------------------------
(***************************************************************************)
(* The operations that write to more than one store, over their files.     *)
(* Approving a request saves a token, then the request, then a log entry   *)
(* (tokenRequest.ts); revoking one saves and logs every token below it     *)
(* (token.ts).  Each save sets a Map and appends a line (tokenStore.ts,    *)
(* requestStore.ts, auditLog.ts).  The disk may refuse any append, the     *)
(* process may be killed in any of them, and the next process has what the *)
(* files hold.                                                             *)
(*                                                                         *)
(* A step is one save with the log entry that follows it.  An operation of *)
(* several saves goes on in the same turn of the event loop: nothing else  *)
(* runs before it is done, but it may throw or die between any two.  Token *)
(* ids are numbers in the order of issue, the order childrenOf finds them  *)
(* in.  Who may ask for what is the matter of Consent and TokenGateway;    *)
(* what the log's own files lose is that of AuditLog, and here it only     *)
(* keeps what was recorded.                                                *)
(***************************************************************************)
EXTENDS Naturals, FiniteSets, JsonlFile

CONSTANTS
    Req,            \* request ids
    MaxTok,         \* bound on the tokens issued
    None,
    MaxRevokes,     \* bound on the calls of revokeToken
    MaxFaults       \* bound on failed appends and crashes

ASSUME RecoveryAssumption == {MaxTok, MaxRevokes, MaxFaults} \subseteq Nat

ASSUME NoneAssumption == None \notin Req \cup Nat

VARIABLES
    up,             \* a process is running
    mem,            \* its Maps
    disk,           \* the file of each store
    log,            \* the audit log: the submissions, decisions, claims,
                    \* delegations and revocations recorded, and the approvals
                    \* that were stopped
    hashing,        \* the approvals of each request that wait for a hash
    delegating,     \* the delegations from each token that wait for one
    approving,      \* the request whose new token has just been saved
    path,           \* the calls of cascadeRevoke: the token revokeToken was
                    \* called for, a child of it, a child of that one, ...
    overlapped,     \* history: requests with two approvals in hash at once
    asked,          \* history: the request ids drawn
    issued,         \* history: request and parent of the tokens, in order of issue
    fresh,          \* history: the tokens issued by this process
    handed,         \* history: the tokens whose secret has been handed out
    revoked,        \* history: tokens revokeToken has returned for, and their
                    \* children when it did
    covered,        \* history: those, and all that was below
    lost,           \* history: ids a save of which may be on no line of the file,
                    \* because its append threw or shares a line with another one
    revokes, faults

process == <<hashing, delegating, approving, path, fresh>>

files == <<disk, log, lost>>

vars == <<up, mem, files, process, overlapped, asked, issued, handed, revoked, covered,
          revokes, faults>>

-----------------------------------------------------------------------------
(* Stores.  A definition named Buggy... is a plausible mistake in the      *)
(* definition that follows it; no specification uses it.                   *)

Tok == 1..MaxTok

Store == {"tokens", "requests"}

NoToken == [status |-> "absent", parent |-> None]

NoRequest == [status |-> "absent", token |-> None, secret |-> FALSE]

\* Of a request, "denied" is request_denied of action deny_request, "blocked"
\* the same decision of action approve_request: an approval that was stopped.
Event == ({"submitted", "approved", "denied", "blocked"} \X Req)
         \cup ({"claimed", "delegated", "revoked"} \X Tok)

Nothing == [s \in Store |-> IF s = "tokens" THEN [t \in Tok |-> NoToken]
                            ELSE [r \in Req |-> NoRequest]]

\* forPersistence: the secret never goes to the file.
BuggyPersisted(value, store) == value

Persisted(value, store) ==
    IF store = "requests" THEN [value EXCEPT !.secret = FALSE] ELSE value

Line(s, k, v) == [key |-> k, value |-> Persisted(v, s)]

\* The constructors: the last line of an id wins.
BuggyRebuilt(s) ==
    [k \in DOMAIN Nothing[s] |->
        LET at == LinesOf(disk[s], k) IN
        IF at = {} THEN Nothing[s][k] ELSE disk[s].lines[Min(at)][1].value]

Rebuilt(s) == [k \in DOMAIN Nothing[s] |-> Replay(disk[s], k, Nothing[s][k])]

-----------------------------------------------------------------------------
(* store.save(v) under id k, and the log entry that follows it, if any.    *)

Kept(s, k, v) == mem' = [mem EXCEPT ![s][k] = v]

\* What an append to a torn file costs: the line takes with it what it held
\* and what is added.
Swallowed(s, k) ==
    IF disk[s].torn THEN {<<s, k>>} \cup {<<s, e.key>> : e \in ToSet(Last(disk[s].lines))}
    ELSE {}

Appended(s, k, v) ==
    /\ disk' = [disk EXCEPT ![s] = AppendLine(@, Line(s, k, v))]
    /\ lost' = lost \cup Swallowed(s, k)

\* The append stops half-way, at the cost of more.
Stopped(s, k, v, more) ==
    \E f \in PartlyAppended(disk[s], Line(s, k, v)) :
        /\ disk' = [disk EXCEPT ![s] = f]
        /\ lost' = lost \cup more \cup IF f = disk[s] THEN {} ELSE Swallowed(s, k)

Completes(s, k, v, entry) ==
    /\ Kept(s, k, v) /\ Appended(s, k, v) /\ log' = log \cup entry
    /\ UNCHANGED <<up, faults>>

Fault == faults < MaxFaults /\ faults' = faults + 1

\* An append throws, and with it the operation: that of the store, whose Map
\* is then ahead of its file, or that of the log.
Throws(s, k, v, entry) ==
    /\ Fault /\ UNCHANGED up /\ Kept(s, k, v)
    /\ \/ Stopped(s, k, v, {<<s, k>>}) /\ UNCHANGED log
       \/ Appended(s, k, v) /\ \E e \in entry : log' \in {log, log \cup {e}}

\* An operation that writes to the log alone; killed in it, it has written
\* the entry or not, and Crash is the rest.
LogsOnly(entry) ==
    /\ UNCHANGED <<up, mem, disk, lost>>
    /\ \/ log' = log \cup {entry} /\ UNCHANGED faults
       \/ Fault /\ log' \in {log, log \cup {entry}}

Down ==
    /\ Fault
    /\ up' = FALSE /\ mem' = Nothing /\ fresh' = {}
    /\ hashing' = [r \in Req |-> 0] /\ delegating' = [t \in Tok |-> 0]
    /\ approving' = None /\ path' = <<>>

BuggyDies(s, k, v, entry) ==
    /\ Down /\ log' \in {log, log \cup entry}
    /\ Stopped(s, k, v, {}) \/ Appended(s, k, v)

\* The process is killed in an append, which may have been whole.
Dies(s, k, v, entry) ==
    /\ Down
    /\ \/ Stopped(s, k, v, {}) /\ UNCHANGED log
       \/ Appended(s, k, v) /\ log' \in {log, log \cup entry}

\* No operation is between two saves.
Idle == up /\ approving = None /\ path = <<>>

-----------------------------------------------------------------------------
(* Requests.                                                               *)

\* An operation of one save of a request.
SavesRequest(r, v, entry) ==
    \/ (Completes("requests", r, v, {entry}) \/ Throws("requests", r, v, {entry}))
       /\ UNCHANGED process
    \/ Dies("requests", r, v, {entry})

Submit(r) ==
    /\ Idle /\ r \notin asked /\ asked' = asked \cup {r}
    /\ SavesRequest(r, [NoRequest EXCEPT !.status = "pending"], <<"submitted", r>>)
    /\ UNCHANGED <<issued, handed, revoked, covered, overlapped, revokes>>

\* approveRequest, up to the hash of the new token's secret.  The last conjunct
\* is a bound.
ApproveBegin(r) ==
    /\ Idle /\ mem.requests[r].status = "pending"
    /\ Len(issued) + hashing[r] < MaxTok
    /\ hashing' = [hashing EXCEPT ![r] = @ + 1]
    /\ overlapped' = IF hashing[r] > 0 THEN overlapped \cup {r} ELSE overlapped
    /\ UNCHANGED <<up, mem, files, delegating, approving, path, fresh, asked, issued,
                   handed, revoked, covered, revokes, faults>>

New == Len(issued) + 1

\* issueToken after the hash: the token is saved, whatever became of the
\* request meanwhile ...
ApproveEnd(r) ==
    LET token == [status |-> "active", parent |-> None] IN
    /\ Idle /\ hashing[r] > 0 /\ Len(issued) < MaxTok
    /\ issued' = Append(issued, [req |-> r, parent |-> None])
    /\ \/ /\ \/ Completes("tokens", New, token, {}) /\ approving' = r
             \/ Throws("tokens", New, token, {}) /\ UNCHANGED approving
          /\ hashing' = [hashing EXCEPT ![r] = @ - 1] /\ fresh' = fresh \cup {New}
          /\ UNCHANGED <<delegating, path>>
       \/ Dies("tokens", New, token, {})
    /\ UNCHANGED <<asked, handed, revoked, covered, overlapped, revokes>>

\* ... and then the request with it.
ApproveSave(r) ==
    LET request == [status |-> "approved", token |-> Len(issued), secret |-> TRUE]
        entry   == {<<"approved", r>>}
    IN
    /\ up /\ approving = r
    /\ \/ /\ Completes("requests", r, request, entry) \/ Throws("requests", r, request, entry)
          /\ approving' = None
          /\ UNCHANGED <<hashing, delegating, path, fresh>>
       \/ Dies("requests", r, request, entry)
    /\ UNCHANGED <<asked, issued, handed, revoked, covered, overlapped, revokes>>

\* A policy or the scope stops it before the hash: that is logged, and the
\* request stays pending.
ApproveBlocked(r) ==
    /\ Idle /\ mem.requests[r].status = "pending"
    /\ LogsOnly(<<"blocked", r>>)
    /\ UNCHANGED <<process, overlapped, asked, issued, handed, revoked, covered, revokes>>

\* The breaker refuses the token: that is logged, and the request stays as it
\* is, decided by another call or not.
ApproveRefused(r) ==
    /\ Idle /\ hashing[r] > 0 /\ hashing' = [hashing EXCEPT ![r] = @ - 1]
    /\ LogsOnly(<<"blocked", r>>)
    /\ UNCHANGED <<delegating, approving, path, fresh, overlapped, asked, issued, handed,
                   revoked, covered, revokes>>

Deny(r) ==
    /\ Idle /\ mem.requests[r].status = "pending"
    /\ SavesRequest(r, [NoRequest EXCEPT !.status = "denied"], <<"denied", r>>)
    /\ UNCHANGED <<asked, issued, handed, revoked, covered, overlapped, revokes>>

\* claimTokenSecret: the secret is handed out by a call that returns.
Claim(r) ==
    LET request == mem.requests[r]
        cleared == [request EXCEPT !.secret = FALSE]
        entry   == {<<"claimed", request.token>>}
    IN
    /\ Idle /\ request.status = "approved" /\ request.secret
    /\ \/ /\ Completes("requests", r, cleared, entry) /\ UNCHANGED process
          /\ handed' = handed \cup {request.token}
       \/ /\ \/ Throws("requests", r, cleared, entry) /\ UNCHANGED process
             \/ Dies("requests", r, cleared, entry)
          /\ UNCHANGED handed
    /\ UNCHANGED <<asked, issued, revoked, covered, overlapped, revokes>>

-----------------------------------------------------------------------------
(* Delegation and revocation.                                              *)

\* delegateToken, for a caller who has the parent's secret.  The last conjunct
\* of the guard is a bound.
DelegateBegin(p) ==
    /\ Idle /\ p \in handed /\ mem.tokens[p].status = "active"
    /\ Len(issued) + delegating[p] < MaxTok
    /\ delegating' = [delegating EXCEPT ![p] = @ + 1]
    /\ UNCHANGED <<up, mem, files, hashing, approving, path, fresh, overlapped, asked,
                   issued, handed, revoked, covered, revokes, faults>>

DelegateEnd(p) ==
    LET token == [status |-> "active", parent |-> p]
        entry == {<<"delegated", New>>}
    IN
    /\ Idle /\ delegating[p] > 0 /\ Len(issued) < MaxTok
    /\ issued' = Append(issued, [req |-> issued[p].req, parent |-> p])
    /\ \/ /\ \/ Completes("tokens", New, token, entry) /\ handed' = handed \cup {New}
             \/ Throws("tokens", New, token, entry) /\ UNCHANGED handed
          /\ delegating' = [delegating EXCEPT ![p] = @ - 1] /\ fresh' = fresh \cup {New}
          /\ UNCHANGED <<hashing, approving, path>>
       \/ Dies("tokens", New, token, entry) /\ UNCHANGED handed
    /\ UNCHANGED <<asked, revoked, covered, overlapped, revokes>>

DelegateRefused(p) ==
    /\ Idle /\ delegating[p] > 0 /\ delegating' = [delegating EXCEPT ![p] = @ - 1]
    /\ UNCHANGED <<up, mem, files, hashing, approving, path, fresh, overlapped, asked,
                   issued, handed, revoked, covered, revokes, faults>>

\* Token t is saved as revoked and logged, below the first n tokens of path;
\* the call of cascadeRevoke for it is next.
Revokes(t, n) ==
    LET token == [mem.tokens[t] EXCEPT !.status = "revoked"]
        entry == {<<"revoked", t>>}
    IN
    \/ /\ \/ /\ Completes("tokens", t, token, entry)
             /\ path' = Append(SubSeq(path, 1, n), t)
          \/ Throws("tokens", t, token, entry) /\ path' = <<>>
       /\ UNCHANGED <<hashing, delegating, approving, fresh>>
    \/ Dies("tokens", t, token, entry)

\* revokeToken, up to its call of cascadeRevoke ...
Revoke(t) ==
    /\ Idle /\ mem.tokens[t].status # "absent"
    /\ revokes < MaxRevokes /\ revokes' = revokes + 1
    /\ Revokes(t, 0)
    /\ UNCHANGED <<asked, issued, handed, revoked, covered, overlapped>>

BuggyActiveChildren(p) ==
    {c \in fresh : mem.tokens[c].status = "active" /\ mem.tokens[c].parent = p}

ActiveChildren(p) ==
    {c \in Tok : mem.tokens[c].status = "active" /\ mem.tokens[c].parent = p}

\* ... which goes on with the first active child of the innermost call that
\* has one; the calls within that one are over ...
CascadeRevoke ==
    LET unfinished == {i \in DOMAIN path : ActiveChildren(path[i]) # {}} IN
    /\ up /\ unfinished # {}
    /\ Revokes(Min(ActiveChildren(path[Max(unfinished)])), Max(unfinished))
    /\ UNCHANGED <<asked, issued, handed, revoked, covered, overlapped, revokes>>

Children(p) == {c \in DOMAIN issued : issued[c].parent = p}

Below(p) ==
    {d \in DOMAIN issued : \A S \in SUBSET DOMAIN issued :
        Children(p) \subseteq S /\ (\A c \in S : Children(c) \subseteq S) => d \in S}

\* ... and returns when no call has one.
RevokeReturns ==
    /\ up /\ path # <<>> /\ \A i \in DOMAIN path : ActiveChildren(path[i]) = {}
    /\ revoked' = revoked \cup {path[1]} \cup Children(path[1])
    /\ covered' = covered \cup {path[1]} \cup Below(path[1])
    /\ path' = <<>>
    /\ UNCHANGED <<up, mem, files, hashing, delegating, approving, fresh, overlapped, asked,
                   issued, handed, revokes, faults>>

-----------------------------------------------------------------------------
\* The process is killed between two saves.
Crash ==
    /\ up /\ Down
    /\ UNCHANGED <<files, asked, issued, handed, revoked, covered, overlapped, revokes>>

Restart ==
    /\ ~up /\ up' = TRUE
    /\ mem' = [s \in Store |-> Rebuilt(s)]
    /\ UNCHANGED <<files, process, overlapped, asked, issued, handed, revoked, covered,
                   revokes, faults>>

Init ==
    /\ up = TRUE /\ mem = Nothing /\ disk = [s \in Store |-> NoFile]
    /\ log = {} /\ hashing = [r \in Req |-> 0] /\ delegating = [t \in Tok |-> 0]
    /\ approving = None /\ path = <<>> /\ overlapped = {}
    /\ asked = {} /\ issued = <<>> /\ fresh = {} /\ handed = {} /\ revoked = {} /\ covered = {}
    /\ lost = {} /\ revokes = 0 /\ faults = 0

Next ==
    \/ \E r \in Req :
          \/ Submit(r) \/ ApproveBegin(r) \/ ApproveEnd(r) \/ ApproveSave(r)
          \/ ApproveBlocked(r) \/ ApproveRefused(r) \/ Deny(r) \/ Claim(r)
    \/ \E t \in Tok :
          DelegateBegin(t) \/ DelegateEnd(t) \/ DelegateRefused(t) \/ Revoke(t)
    \/ CascadeRevoke \/ RevokeReturns
    \/ Crash \/ Restart

Spec == Init /\ [][Next]_vars

-----------------------------------------------------------------------------
(* Properties.                                                             *)

TokenRec == [status : {"absent", "active", "revoked"}, parent : Tok \cup {None}]

RequestRec == [status : {"absent", "pending", "approved", "denied"},
               token : Tok \cup {None}, secret : BOOLEAN]

LineRec(s) == IF s = "tokens" THEN [key : Tok, value : TokenRec]
              ELSE [key : Req, value : RequestRec]

\* Every variable stays in its type.
TypeOK ==
    /\ up \in BOOLEAN
    /\ mem \in [Store -> [Tok -> TokenRec] \cup [Req -> RequestRec]]
    /\ mem.tokens \in [Tok -> TokenRec] /\ mem.requests \in [Req -> RequestRec]
    /\ disk \in [Store -> FileOf(LineRec("tokens") \cup LineRec("requests"))]
    /\ \A s \in Store : disk[s] \in FileOf(LineRec(s))
    /\ log \subseteq Event
    /\ hashing \in [Req -> 0..MaxTok] /\ delegating \in [Tok -> 0..MaxTok]
    /\ approving \in Req \cup {None} /\ path \in Seq(Tok)
    /\ asked \subseteq Req /\ overlapped \subseteq Req
    /\ handed \cup revoked \cup covered \cup fresh \subseteq DOMAIN issued
    /\ lost \subseteq ({"tokens"} \X Tok) \cup ({"requests"} \X Req)
    /\ issued \in Seq([req : Req, parent : Tok \cup {None}]) /\ Len(issued) <= MaxTok
    /\ revokes \in 0..MaxRevokes /\ faults \in 0..MaxFaults

\* Once revokeToken has returned, no process ever serves that token as active
\* again, nor one delegated from it before, unless a save of this one was
\* lost: cascades that stop half-way and are called again, and restarts, bring
\* back no other (tokenStore.ts 6-10, token.ts 266-315).
RevocationStays ==
    up => \A t \in revoked :
        mem.tokens[t].status = "active" => <<"tokens", t>> \in lost

\* After any crash or failed append the stores do not contradict each other:
\* an approved request has its token, and a submission, approval or denial of a
\* request and a delegation or revocation of a token that the log knows is in
\* their stores too; an entry of a stopped approval, which says request_denied
\* as well, tells no more than that there was the request
\* (tokenRequest.ts 227-245, 246-259, 282-292, token.ts 279-291) - but for what
\* was lost.
StoresAgree ==
    up =>
    /\ \A r \in Req : <<"requests", r>> \notin lost =>
          /\ mem.requests[r].status = "approved" /\ <<"tokens", mem.requests[r].token>> \notin lost
                => mem.tokens[mem.requests[r].token].status # "absent"
          /\ {<<"submitted", r>>, <<"blocked", r>>} \cap log # {}
                => mem.requests[r].status # "absent"
          /\ <<"approved", r>> \in log => mem.requests[r].status = "approved"
          /\ <<"denied", r>> \in log => mem.requests[r].status \in {"denied", "approved"}
          /\ mem.requests[r].secret => <<"claimed", mem.requests[r].token>> \notin log
    /\ \A t \in Tok : <<"tokens", t>> \notin lost =>
          /\ <<"revoked", t>> \in log => mem.tokens[t].status = "revoked"
          /\ <<"delegated", t>> \in log => mem.tokens[t].status # "absent"

\* A secret that may be claimed is one this process made: it ends with the
\* process and is on no file (requestStore.ts 7-14, 22-29).
SecretEndsWithProcess ==
    /\ \A r \in Req : mem.requests[r].secret => mem.requests[r].token \in fresh
    /\ \A e \in EntriesOf(disk.requests) : ~e.value.secret

\* Through failed appends, crashes and the second approvals they allow, at most
\* one token of a request has had its secret claimed (tokenRequest.ts 246,
\* 338-381, requestStore.ts 1-4) - but for a request whose save was lost, or
\* with two approvals that overlapped.
OneClaimPerRequest ==
    \A t, u \in {c \in handed : issued[c].parent = None} :
        issued[t] = issued[u] =>
            t = u \/ issued[t].req \in overlapped \/ <<"requests", issued[t].req>> \in lost

-----------------------------------------------------------------------------
\* "Revoking a token must revoke everything delegated from it, transitively"
\* (token.ts 295-299): once revokeToken has returned, nothing that had been
\* delegated from the token is active in any process.
RevokedWithDescendants ==
    up => \A t \in covered : mem.tokens[t].status # "active"
=============================================================================
