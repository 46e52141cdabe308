------------------------------ MODULE Console ------------------------------
(***************************************************************************)
(* The operator console in the browser (public/js): the poll that fetches  *)
(* six collections and re-renders the tab (app.js, state.js, router.js),   *)
(* and the forms and fields an operator works in meanwhile                 *)
(* (tabs/policies.js, tabs/redactionRules.js, tabs/tokens,                 *)
(* tabs/requests.js).                                                      *)
(*                                                                         *)
(* Ticks overlap: the timer does not wait for the last one, and a click    *)
(* starts another.  Every re-render rebuilds the tab, and what was typed   *)
(* or shown in it is gone.  A collection is the number of its changes.     *)
(* SdkClientProofs extends this module beside SdkClient: what both have is *)
(* named for the console here.                                             *)
(***************************************************************************)
EXTENDS Naturals, FiniteSets

CONSTANTS
    Part,           \* collections fetched by a refresh
    Place,          \* location hashes: the tabs, and a page per token
    Start,          \* the place shown first
    Form,           \* forms and fields an operator may work in
    Home,           \* where a form is
    Kind,           \* what it is: see FormKind
    Slot,           \* bound: ticks in flight at once
    Nothing,
    MaxChange,      \* bound on changes at the server
    MaxFault        \* bound on refreshes that fail

FormKind == {"edit",        \* a policy or a redaction rule: Save, Cancel
             "delegate",    \* delegation of a token: Request delegation, Cancel
             "data",        \* customer data of a token: Close
             "held",        \* the token's secret, pasted
             "field"}       \* of the Requests tab: no guard but the focus

ASSUME ConsoleAssumption ==
    /\ Start \in Place
    /\ Home \in [Form -> Place] /\ Kind \in [Form -> FormKind]
    /\ MaxChange \in Nat /\ MaxFault \in Nat

VARIABLES
    server,         \* the collections at the server
    tick,           \* tick() calls in flight
    fetched,        \* STATE: the data last fetched, and its fingerprint
    shown,          \* the data the tab was rendered from
    place,
    forms,          \* forms in the tab's DOM, and fields filled in there
    formOpen,       \* formOpenFlag
    focused,        \* formFieldIsFocused()
    post,           \* submissions in flight: "live" while their slot is in the DOM
    exposed,        \* history: forms open while another one was closed or saved,
                    \* and fields filled in when the focus went
    held,           \* history: a change was fetched and not rendered
    fault           \* refreshes that failed

page == <<shown, place, forms, formOpen, focused, post, exposed, held>>

console == <<server, tick, fetched, page, fault>>

-----------------------------------------------------------------------------
(* Ticks and renders.  A definition named Buggy... is a plausible mistake  *)
(* in the definition that follows it; no specification uses it.            *)

TickRec == [on : BOOLEAN, force : BOOLEAN, got : [Part -> Nat \cup {Nothing}]]

NoData == [p \in Part |-> Nothing]

NoTick == [on |-> FALSE, force |-> FALSE, got |-> NoData]

Ticks(s, force) ==
    ~tick[s].on /\ tick' = [tick EXCEPT ![s] = [NoTick EXCEPT !.on = TRUE, !.force = force]]

Poll(s) == Ticks(s, FALSE) /\ UNCHANGED <<server, fetched, page, fault>>

\* tick(true): the start, a login or logout, a decision, a revocation.
Forced(s) == Ticks(s, TRUE) /\ UNCHANGED <<server, fetched, page, fault>>

ServerChanges(p) ==
    /\ server[p] < MaxChange
    /\ server' = [server EXCEPT ![p] = @ + 1]
    /\ UNCHANGED <<tick, fetched, page, fault>>

\* One of the GETs of a refresh, answered with what the server has then.
Get(s, p) ==
    /\ tick[s].on /\ tick[s].got[p] = Nothing
    /\ tick' = [tick EXCEPT ![s].got[p] = server[p]]
    /\ UNCHANGED <<server, fetched, page, fault>>

\* render(): the tab is rebuilt from data.
Rendered(data) ==
    /\ shown' = data /\ held' = FALSE
    /\ forms' = {} /\ exposed' = {} /\ focused' = FALSE
    /\ post' = [f \in Form |-> IF post[f] = "live" THEN "detached" ELSE post[f]]

BuggyChanged(got) ==
    \E p \in Part \ {CHOOSE q \in Part : TRUE} : got[p] # fetched[p]

\* The fingerprint of what was fetched is not the last one's.
Changed(got) == got # fetched

\* The end of tick(), after refreshAll.
Updates(s, changed, data) ==
    IF tick[s].force \/ (changed /\ ~formOpen /\ ~focused)
    THEN Rendered(data) /\ UNCHANGED <<place, formOpen>>
    ELSE /\ held' = (held \/ changed)
         /\ UNCHANGED <<shown, place, forms, formOpen, focused, post, exposed>>

\* The six answers are in: they are stored whatever else was stored meanwhile.
BuggySettle(s) ==
    LET got == tick[s].got IN
    /\ tick[s].on /\ Nothing \notin {got[p] : p \in Part}
    /\ fetched' = IF formOpen THEN fetched ELSE got
    /\ tick' = [tick EXCEPT ![s] = NoTick]
    /\ Updates(s, Changed(got), got)
    /\ UNCHANGED <<server, fault>>

Settle(s) ==
    LET got == tick[s].got IN
    /\ tick[s].on /\ Nothing \notin {got[p] : p \in Part}
    /\ fetched' = got
    /\ tick' = [tick EXCEPT ![s] = NoTick]
    /\ Updates(s, Changed(got), got)
    /\ UNCHANGED <<server, fault>>

\* A GET fails: nothing is stored, and a forced tick renders all the same.
RefreshFails(s) ==
    /\ tick[s].on /\ fault < MaxFault /\ fault' = fault + 1
    /\ tick' = [tick EXCEPT ![s] = NoTick]
    /\ Updates(s, FALSE, fetched)
    /\ UNCHANGED <<server, fetched>>

-----------------------------------------------------------------------------
(* The operator.                                                           *)

\* hashchange: the new tab is rendered from the data there is.
Navigate(to) ==
    /\ to # place /\ place' = to
    /\ Rendered(fetched) /\ formOpen' = FALSE
    /\ UNCHANGED <<server, tick, fetched, fault>>

\* Fields lose their guard with the focus.
Unfocused == exposed \cup {f \in forms : Kind[f] = "field"}

\* show...Form, or the first input to the secret field.  A token's page has its
\* buttons only once the token is known; "New policy" is there from the start.
Open(f) ==
    /\ Home[f] = place /\ Kind[f] # "field"
    /\ shown # Nothing /\ (Kind[f] = "edit" \/ shown # NoData)
    /\ forms' = forms \cup {f} /\ formOpen' = TRUE
    /\ focused' = (Kind[f] = "held")
    /\ exposed' = (IF focused' THEN exposed ELSE Unfocused) \ {f}
    /\ UNCHANGED <<server, tick, fetched, shown, place, post, held, fault>>

\* A field is typed in or focused again, or registerTestAgent fills it and focuses it.
Fill(f) ==
    /\ Home[f] = place /\ Kind[f] = "field" /\ shown # Nothing
    /\ forms' = forms \cup {f} /\ focused' = TRUE /\ exposed' = exposed \ {f}
    /\ UNCHANGED <<server, tick, fetched, shown, place, formOpen, post, held, fault>>

Focus(f) ==
    /\ f \in forms /\ Kind[f] # "field" /\ ~focused /\ focused' = TRUE
    /\ UNCHANGED <<server, tick, fetched, shown, place, forms, formOpen, post, exposed,
                   held, fault>>

Blur ==
    /\ focused /\ focused' = FALSE /\ exposed' = Unfocused
    /\ UNCHANGED <<server, tick, fetched, shown, place, forms, formOpen, post, held,
                   fault>>

Cancel(f) ==
    /\ f \in forms /\ Kind[f] \notin {"held", "field"}
    /\ forms' = forms \ {f} /\ exposed' = forms' /\ formOpen' = FALSE /\ focused' = FALSE
    /\ UNCHANGED <<server, tick, fetched, shown, place, post, held, fault>>

\* Save, Request delegation, Submit request, or the approval with the policy chosen:
\* the answer is awaited.  A bound: the button is not pressed again before it comes.
Submit(f) ==
    /\ f \in forms /\ Kind[f] \in {"edit", "delegate", "field"} /\ post[f] = "none"
    /\ post' = [post EXCEPT ![f] = "live"] /\ focused' = FALSE /\ exposed' = Unfocused
    /\ UNCHANGED <<server, tick, fetched, shown, place, forms, formOpen, held, fault>>

\* savePolicy, saveRule: the slot is emptied, wherever the operator is by now.
Saved(f, s) ==
    /\ Kind[f] = "edit" /\ post[f] # "none"
    /\ forms' = IF post[f] = "live" THEN forms \ {f} ELSE forms
    /\ exposed' = forms' /\ formOpen' = FALSE
    /\ focused' \in {focused, focused /\ forms' = forms}
    /\ post' = [post EXCEPT ![f] = "none"]
    /\ Ticks(s, TRUE)
    /\ UNCHANGED <<server, fetched, shown, place, held, fault>>

\* submit() of the delegation form: the child's secret is put on the page and
\* the guard raised again, wherever the operator is by now.
Delegated(f, s) ==
    /\ Kind[f] = "delegate" /\ post[f] # "none"
    /\ formOpen' = TRUE
    /\ post' = [post EXCEPT ![f] = "none"]
    /\ Ticks(s, TRUE)
    /\ UNCHANGED <<server, fetched, shown, place, forms, focused, exposed, held, fault>>

\* submitTestRequest, decideRequest: what was filled in stays until the tick renders.
Submitted(f, s) ==
    /\ Kind[f] = "field" /\ post[f] # "none"
    /\ post' = [post EXCEPT ![f] = "none"]
    /\ Ticks(s, TRUE)
    /\ UNCHANGED <<server, fetched, shown, place, forms, formOpen, focused, exposed, held,
                   fault>>

\* Refused, or not logged in: a toast in the form.
BuggyRefused(f) ==
    /\ post[f] # "none" /\ post' = [post EXCEPT ![f] = "none"]
    /\ formOpen' = FALSE
    /\ UNCHANGED <<server, tick, fetched, shown, place, forms, focused, exposed, held,
                   fault>>

Refused(f) ==
    /\ post[f] # "none" /\ post' = [post EXCEPT ![f] = "none"]
    /\ UNCHANGED <<server, tick, fetched, shown, place, forms, formOpen, focused,
                   exposed, held, fault>>

-----------------------------------------------------------------------------
\* initChrome, then tick(true).
ConsoleInit ==
    /\ server = [p \in Part |-> 0]
    /\ \E first \in Slot :
          tick = [s \in Slot |->
             IF s = first THEN [NoTick EXCEPT !.on = TRUE, !.force = TRUE] ELSE NoTick]
    /\ fetched = NoData /\ shown = Nothing /\ place = Start
    /\ forms = {} /\ formOpen = FALSE /\ focused = FALSE
    /\ post = [f \in Form |-> "none"]
    /\ exposed = {} /\ held = FALSE /\ fault = 0

Responses ==
    \E f \in Form :
       Refused(f) \/ \E s \in Slot : Saved(f, s) \/ Delegated(f, s) \/ Submitted(f, s)

ConsoleNext ==
    \/ \E s \in Slot :
          \/ Poll(s) \/ Forced(s) \/ Settle(s) \/ RefreshFails(s)
          \/ \E p \in Part : Get(s, p)
    \/ \E p \in Part : ServerChanges(p)
    \/ \E to \in Place : Navigate(to)
    \/ \E f \in Form : Open(f) \/ Fill(f) \/ Focus(f) \/ Cancel(f) \/ Submit(f)
    \/ Blur
    \/ Responses

\* The timer fires every POLL_MS and a GET is answered in the end.
Fairness ==
    /\ WF_console(\E s \in Slot : Poll(s))
    /\ \A s \in Slot : WF_console(Settle(s)) /\ \A p \in Part : WF_console(Get(s, p))

ConsoleSpec == ConsoleInit /\ [][ConsoleNext]_console

FairConsoleSpec == ConsoleSpec /\ Fairness

-----------------------------------------------------------------------------
(* Properties.                                                             *)

\* Every variable stays in its type.
ConsoleTypeOK ==
    /\ server \in [Part -> 0..MaxChange]
    /\ tick \in [Slot -> TickRec]
    /\ fetched \in [Part -> 0..MaxChange] \cup {NoData}
    /\ shown \in [Part -> 0..MaxChange] \cup {NoData, Nothing}
    /\ place \in Place /\ forms \subseteq Form /\ exposed \subseteq Form
    /\ {formOpen, focused, held} \subseteq BOOLEAN
    /\ post \in [Form -> {"none", "live", "detached"}]
    /\ fault \in 0..MaxFault

Ends(s) == tick[s].on /\ ~tick'[s].on

\* A background poll takes a form off the page only if another form was closed
\* or saved since it was opened, and a field that was filled in only after the
\* focus went: every other step keeps a guard up (state.js 22-28, 90-101;
\* app.js 26-31).
PollSparesForms ==
    [][\A s \in Slot : Ends(s) /\ ~tick[s].force => forms \ forms' \subseteq exposed]_console

\* Whatever order the answers of overlapping refreshes come in, and although
\* some fail, the data becomes the server's and stays so, with a form open as
\* well (state.js 74-96: "still refresh the underlying data").
DataCatchesUp == <>[](fetched = server)

\* And the page becomes the data, unless a form kept a change off it when the
\* change was fetched (app.js 19-32).
PageCatchesUp == <>[](shown = server \/ held)

=============================================================================
