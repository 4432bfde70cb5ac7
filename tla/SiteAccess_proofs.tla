--------------------------- MODULE SiteAccess_proofs ---------------------------
(***************************************************************************)
(* The safety of SiteAccess for any sites, tabs and number of handlers.    *)
(*                                                                         *)
(* EnabledNotRevoked is not inductive: a handler saves a state it computed *)
(* steps before. Tidy says of the stored state and of every state a        *)
(* handler holds that no site of it is enabled and revoked.                *)
(***************************************************************************)
EXTENDS SiteAccess, TLAPS

Tidy == {s \in [enabled : SUBSET Sites, revoked : SUBSET Sites] : s.enabled \cap s.revoked = {}}
Kinds == {"init", "snapshot", "last", "result", "probe", "revoke", "delete", "added", "removed"}
Places ==
  {"survey", "save", "silence", "check", "write", "read", "register", "inject",
   "attach", "remove", "wipe", "look", "note"}
Running ==
  [kind : Kinds, pc : Places, sites : SUBSET Sites, tab : Tabs \cup {Elsewhere}, state : Tidy, answer : SUBSET Sites]
Event == [kind : {"added", "removed"}, sites : SUBSET Sites]

BrowserOK ==
  /\ Relay \subseteq granted /\ granted \subseteq Sites /\ registered \subseteq Sites
  /\ site \in [Tabs -> Sites \cup {NoSite}] /\ script \in [Tabs -> BOOLEAN]
  /\ active \in Tabs \cup {Elsewhere}
  /\ events \in Seq(Event)
WorkerOK ==
  /\ handlers \in [Slots -> Running \cup {Nothing}]
  /\ running \in BOOLEAN
  /\ running \/ Idle
Inv == BrowserOK /\ stored \in Tidy /\ WorkerOK

-----------------------------------------------------------------------------
\* The changes of the stored state.

(* createInitialExtensionState lists no site twice: it lists none.         *)
LEMMA InitialIsTidy == Initial \in Tidy
BY DEF Initial, Tidy

(* Enabling takes the sites out of the revoked ones (revokedSites.filter). *)
LEMMA EnableIsTidy ==
  ASSUME NEW s \in Tidy, NEW S \in SUBSET Sites PROVE Enable(s, S) \in Tidy
BY DEF Enable, Tidy

(* Revoking takes the sites out of the enabled ones (addRevokedSite).      *)
LEMMA DisableIsTidy ==
  ASSUME NEW s \in Tidy, NEW S \in SUBSET Sites PROVE Disable(s, S) \in Tidy
BY DEF Disable, Tidy

(* So do the queued writes of a permission event                           *)
(* (updateOriginsFromPermissionEvent).                                     *)
LEMMA EventIsTidy ==
  ASSUME NEW s \in Tidy, NEW S \in SUBSET Sites
  PROVE  Added(s, S) \in Tidy /\ Removed(s, S) \in Tidy
BY EnableIsTidy, DisableIsTidy DEF Added, Removed, Tidy

(* The start of a worker disables and then enables                         *)
(* (reconcileAllPermissions).                                              *)
LEMMA ReconcileIsTidy ==
  ASSUME NEW s \in Tidy, NEW found \in SUBSET Sites PROVE Reconcile(s, found) \in Tidy
<1>1. Disable(s, s.enabled \ found) \in Tidy
  <2>1. s.enabled \ found \in SUBSET Sites BY DEF Tidy
  <2>2. QED BY <2>1, DisableIsTidy
<1>2. found \ (Relay \cup s.enabled) \in SUBSET Sites OBVIOUS
<1>3. QED BY <1>1, <1>2, EnableIsTidy DEF Reconcile

-----------------------------------------------------------------------------
\* The handlers.

(* A handler starts with the initial state in hand.                        *)
LEMMA HandlerIsTyped ==
  ASSUME BrowserOK, NEW kind \in Kinds, NEW pc \in Places, NEW sites \in SUBSET Sites
  PROVE  Handler(kind, pc, sites) \in Running
BY InitialIsTidy DEF Handler, Running, BrowserOK

(* So does the initialization of the worker (initializeExtension).         *)
LEMMA InitializeIsTyped ==
  ASSUME BrowserOK PROVE Initialize \in Running
<1>1. "init" \in Kinds /\ "survey" \in Places /\ {} \in SUBSET Sites BY DEF Kinds, Places
<1>2. QED BY <1>1, HandlerIsTyped DEF Initialize

(* A request, an event or a start of the worker leaves it running.         *)
LEMMA StartsIsTyped ==
  ASSUME Inv, NEW h \in Running, Starts(h) PROVE WorkerOK'
<1>1. Initialize \in Running BY InitializeIsTyped DEF Inv
<1>2. handlers \in [Slots -> Running \cup {Nothing}] BY DEF Inv, WorkerOK
<1>3. CASE running
  <2>1. PICK i \in Free : handlers' = [handlers EXCEPT ![i] = h] /\ UNCHANGED running
    BY <1>3 DEF Starts
  <2>2. QED BY <1>2, <1>3, <2>1 DEF WorkerOK
<1>4. CASE ~running
  <2>1. PICK i, j \in Free : /\ handlers' = [handlers EXCEPT ![i] = h, ![j] = Initialize]
                            /\ running' = TRUE
    BY <1>4 DEF Starts
  <2>2. QED BY <1>1, <1>2, <2>1 DEF WorkerOK
<1>5. QED BY <1>3, <1>4

(* A step of a handler does not stop the worker.                           *)
LEMMA GoesIsTyped ==
  ASSUME Inv, NEW i \in Slots, handlers[i] # Nothing, NEW h \in Running \cup {Nothing},
         Goes(i, h), UNCHANGED running
  PROVE  WorkerOK'
BY DEF Inv, WorkerOK, Goes, Idle

(* What a handler has while it runs.                                       *)
LEMMA AtIsTyped ==
  ASSUME Inv, NEW i \in Slots, NEW pc, At(i, pc)
  PROVE  /\ handlers[i] \in Running /\ handlers[i] # Nothing
         /\ handlers[i].pc = pc /\ handlers[i].sites \in SUBSET Sites
         /\ handlers[i].state \in Tidy /\ handlers[i].answer \in SUBSET Sites
BY DEF Inv, WorkerOK, At, Running

-----------------------------------------------------------------------------
\* The invariant.

(* It holds when the extension has been installed (initializeExtension).   *)
LEMMA InitInv == Init => Inv
<1> SUFFICES ASSUME Init PROVE Inv OBVIOUS
<1>1. BrowserOK BY SiteAccessAssumption DEF Init, BrowserOK
<1>2. stored \in Tidy BY InitialIsTidy DEF Init
<1>3. Initialize \in Running BY <1>1, InitializeIsTyped
<1>4. WorkerOK BY <1>3 DEF Init, WorkerOK
<1>5. QED BY <1>1, <1>2, <1>4 DEF Inv

(* The user's requests start a handler and change what the browser knows;  *)
(* he cannot take the relay's permissions (permission_result, revoke).     *)
LEMMA UserInv == ASSUME Inv, User PROVE Inv'
<1>1. BrowserOK /\ stored \in Tidy /\ WorkerOK BY DEF Inv
<1> USE DEF Inv
<1>2. ASSUME NEW t \in Tabs \cup {Elsewhere}, Activate(t) PROVE Inv'
  BY <1>1, <1>2 DEF Activate, BrowserOK, WorkerOK, Idle
<1>3. ASSUME NEW t \in Tabs, NEW s \in Sites \cup {NoSite}, Navigate(t, s) PROVE Inv'
  <2>1. BrowserOK' BY <1>1, <1>3 DEF Navigate, BrowserOK
  <2>2. QED BY <1>1, <1>3, <2>1 DEF Navigate, WorkerOK, Idle
<1>4. ASSUME NEW h \in Running, Request(h), UNCHANGED <<browserVars, events>> PROVE Inv'
  <2>1. WorkerOK' BY <1>4, StartsIsTyped DEF Request
  <2>2. QED BY <1>1, <1>4, <2>1 DEF Request, BrowserOK, browserVars
<1>5. CASE Allow
  <2>1. Here \in Sites BY <1>5 DEF Allow
  <2>2. Handler("result", "check", {Here}) \in Running
    BY <1>1, <2>1, HandlerIsTyped DEF Kinds, Places
  <2>3. WorkerOK' BY <1>5, <2>2, StartsIsTyped DEF Allow, Request
  <2>4. [kind |-> "added", sites |-> {Here}] \in Event BY <2>1 DEF Event
  <2>5. events' \in Seq(Event) BY <1>1, <1>5, <2>4 DEF Allow, BrowserOK
  <2>6. BrowserOK' BY <1>1, <1>5, <2>1, <2>5 DEF Allow, BrowserOK
  <2>7. QED BY <1>1, <1>5, <2>3, <2>6 DEF Allow, Request
<1>6. ASSUME NEW s \in Sites, Withdraw(s) PROVE Inv'
  <2>1. [kind |-> "removed", sites |-> {s}] \in Event BY DEF Event
  <2>2. events' \in Seq(Event) BY <1>1, <1>6, <2>1 DEF Withdraw, BrowserOK
  <2>3. BrowserOK' BY <1>1, <1>6, <2>2 DEF Withdraw, BrowserOK
  <2>4. QED BY <1>1, <1>6, <2>3 DEF Withdraw, WorkerOK, Idle
<1>7. CASE Bootstrap
  <2>1. Handler("snapshot", "look", {}) \in Running
    BY <1>1, HandlerIsTyped DEF Kinds, Places
  <2>2. QED BY <1>4, <1>7, <2>1 DEF Bootstrap
<1>8. CASE Probe
  <2>1. {Here} \in SUBSET Sites BY <1>1, <1>8 DEF Probe, BrowserOK
  <2>2. Handler("probe", "attach", {Here}) \in Running
    BY <1>1, <2>1, HandlerIsTyped DEF Kinds, Places
  <2>3. QED BY <1>4, <1>8, <2>2 DEF Probe
<1>9. CASE Revoke
  <2>1. {Here} \in SUBSET Sites BY <1>1, <1>9 DEF Revoke, BrowserOK
  <2>2. Handler("revoke", "silence", {Here}) \in Running
    BY <1>1, <2>1, HandlerIsTyped DEF Kinds, Places
  <2>3. QED BY <1>4, <1>9, <2>2 DEF Revoke
<1>10. CASE DeleteLocalData
  <2>1. Handler("delete", "silence", {}) \in Running
    BY <1>1, HandlerIsTyped DEF Kinds, Places
  <2>2. QED BY <1>4, <1>10, <2>1 DEF DeleteLocalData
<1>11. CASE ClearRevokedSites
  <2>1. stored' \in Tidy BY <1>1, <1>11 DEF ClearRevokedSites, Tidy
  <2>2. QED BY <1>1, <1>11, <2>1 DEF ClearRevokedSites, BrowserOK, browserVars, WorkerOK, Idle
<1>12. QED BY <1>2, <1>3, <1>5, <1>6, <1>7, <1>8, <1>9, <1>10, <1>11 DEF User

(* A step that touches nothing but its own handler and the stored state.   *)
LEMMA StoredStepInv ==
  ASSUME Inv, NEW i \in Slots, handlers[i] # Nothing, NEW h \in Running \cup {Nothing},
         Goes(i, h), StoredStep, stored' \in Tidy
  PROVE  Inv'
<1>1. WorkerOK' BY GoesIsTyped DEF StoredStep
<1>2. QED BY <1>1 DEF Inv, StoredStep, BrowserOK, browserVars

(* A handler moves on to a place of its list.                              *)
LEMMA ToIsTyped ==
  ASSUME Inv, NEW i \in Slots, handlers[i] # Nothing, NEW pc \in Places
  PROVE  [handlers[i] EXCEPT !.pc = pc] \in Running
BY DEF Inv, WorkerOK, Running

(* So does every step of a handler, whatever happened since it loaded the  *)
(* state it saves.                                                         *)
LEMMA StepInv == ASSUME Inv, NEW i \in Slots, Step(i) PROVE Inv'
<1>1. BrowserOK /\ stored \in Tidy /\ WorkerOK BY DEF Inv
<1>h. DEFINE h == handlers[i]
<1>2. ASSUME NEW pc, At(i, pc)
      PROVE  /\ h \in Running /\ h # Nothing /\ h.sites \in SUBSET Sites
             /\ h.state \in Tidy /\ h.answer \in SUBSET Sites
  BY <1>2, AtIsTyped
<1>3. ASSUME NEW pc \in Places, NEW to \in Places, At(i, pc), To(i, to), UNCHANGED running
      PROVE  WorkerOK'
  BY <1>2, <1>3, ToIsTyped, GoesIsTyped DEF To
<1>4. ASSUME NEW pc, At(i, pc), Ends(i), UNCHANGED running PROVE WorkerOK'
  BY <1>2, <1>4, GoesIsTyped DEF Ends
<1>5. CASE Silence(i)
  <2>1. BrowserOK' BY <1>1, <1>5 DEF Silence, BrowserOK
  <2>2. stored' \in Tidy BY <1>1, <1>5 DEF Silence
  <2>3. At(i, "silence") /\ UNCHANGED running BY <1>5 DEF Silence
  <2>4. \E pc \in {"write", "read", "remove"} : To(i, pc) BY <1>5 DEF Silence
  <2>5. WorkerOK' BY <1>3, <2>3, <2>4 DEF Places
  <2>6. QED BY <2>1, <2>2, <2>5 DEF Inv
<1>6. CASE Check(i)
  <2>1. BrowserOK' /\ stored' \in Tidy BY <1>1, <1>6 DEF Check, Quiet, BrowserOK, browserVars
  <2>2. At(i, "check") /\ UNCHANGED running BY <1>6 DEF Check, Quiet
  <2>3. To(i, "write") \/ Ends(i) BY <1>6 DEF Check
  <2>4. WorkerOK' BY <1>3, <1>4, <2>2, <2>3 DEF Places
  <2>5. QED BY <2>1, <2>4 DEF Inv
<1>7. CASE Remove(i)
  <2>1. h.sites \in SUBSET Sites BY <1>2, <1>7 DEF Remove
  <2>2. Gone(h) \in SUBSET (granted \ Relay) BY <2>1 DEF Gone
  <2>3. [kind |-> "removed", sites |-> Gone(h)] \in Event BY <1>1, <2>2 DEF Event, BrowserOK
  <2>4. events' \in Seq(Event) BY <1>1, <1>7, <2>3 DEF Remove, BrowserOK
  <2>5. granted' = granted \ Gone(h) BY <1>7 DEF Remove
  <2>6. UNCHANGED <<registered, site, script, active, stored, running>> BY <1>7 DEF Remove
  <2>7. BrowserOK' /\ stored' \in Tidy BY <1>1, <2>2, <2>4, <2>5, <2>6 DEF BrowserOK
  <2>8. At(i, "remove") /\ (To(i, "wipe") \/ To(i, "write")) BY <1>7 DEF Remove
  <2>9. WorkerOK' BY <1>3, <2>6, <2>8 DEF Places
  <2>10. QED BY <2>7, <2>9 DEF Inv
<1>8. CASE Write(i)
  <2>1. At(i, "write") BY <1>8 DEF Write
  <2>2. stored' \in Tidy
    BY <1>1, <1>2, <1>8, <2>1, EventIsTidy, EnableIsTidy, DisableIsTidy DEF Write
  <2>3. Goes(i, [h EXCEPT !.pc = "read", !.state = stored']) /\ StoredStep BY <1>8 DEF Write
  <2>4. [h EXCEPT !.pc = "read", !.state = stored'] \in Running
    BY <1>2, <2>1, <2>2 DEF Running, Places
  <2>5. QED BY <1>2, <2>1, <2>2, <2>3, <2>4, StoredStepInv
<1>9. CASE Survey(i)
  <2>1. At(i, "survey") BY <1>9 DEF Survey
  <2>2. [h EXCEPT !.pc = "save", !.state = stored, !.answer = granted] \in Running
    BY <1>1, <1>2, <2>1 DEF Running, Places, BrowserOK
  <2>3. WorkerOK' BY <1>2, <1>9, <2>1, <2>2, GoesIsTyped DEF Survey, Quiet
  <2>4. QED BY <1>1, <1>9, <2>3 DEF Inv, Survey, Quiet, BrowserOK, browserVars
<1>10. CASE SaveSurvey(i)
  <2> DEFINE new == Reconcile(h.state, h.answer)
  <2>1. At(i, "save") BY <1>10 DEF SaveSurvey
  <2>2. new \in Tidy BY <1>2, <2>1, ReconcileIsTidy
  <2>3. stored' \in Tidy BY <1>1, <1>10, <2>2 DEF SaveSurvey
  <2>4. [h EXCEPT !.pc = "read", !.state = new, !.answer = {}] \in Running
    BY <1>2, <2>1, <2>2 DEF Running, Places
  <2>5. Goes(i, [h EXCEPT !.pc = "read", !.state = new, !.answer = {}]) /\ StoredStep
    BY <1>10 DEF SaveSurvey
  <2>6. QED BY <1>2, <2>1, <2>3, <2>4, <2>5, StoredStepInv
<1>11. CASE Wipe(i)
  <2>1. At(i, "wipe") BY <1>11 DEF Wipe
  <2>2. Handler("last", "look", {}) \in Running BY <1>1, HandlerIsTyped DEF Kinds, Places
  <2>3. QED BY <1>2, <1>11, <2>1, <2>2, StoredStepInv, InitialIsTidy DEF Wipe
<1>12. CASE Look(i)
  <2> DEFINE base == IF h.kind = "last" THEN Initial ELSE stored
             new == CurrentSite(base, Here, Here \in granted)
             on == [h EXCEPT !.pc = "note", !.state = new]
  <2>1. At(i, "look") BY <1>12 DEF Look
  <2>2. Ends(i) \/ (Here # NoSite /\ Goes(i, on)) BY <1>12 DEF Look
  <2>3. ASSUME Here # NoSite PROVE on \in Running
    <3>1. Here \in Sites BY <1>1, <2>3 DEF Here, BrowserOK
    <3>2. base \in Tidy BY <1>1, InitialIsTidy
    <3>3. new \in Tidy BY <3>1, <3>2, EnableIsTidy, DisableIsTidy DEF CurrentSite
    <3>4. QED BY <1>2, <2>1, <3>3 DEF Running, Places
  <2>4. UNCHANGED running BY <1>12 DEF Look, Quiet
  <2> HIDE DEF on
  <2>5. WorkerOK' BY <1>2, <1>4, <2>1, <2>2, <2>3, <2>4, GoesIsTyped
  <2>6. QED BY <1>1, <1>12, <2>5 DEF Inv, Look, Quiet, BrowserOK, browserVars
<1>13. CASE Note(i)
  <2>1. At(i, "note") BY <1>13 DEF Note
  <2>2. stored' \in Tidy BY <1>2, <1>13, <2>1 DEF Note
  <2>3. To(i, "read") /\ StoredStep BY <1>13 DEF Note
  <2>4. WorkerOK' BY <1>3, <2>1, <2>3 DEF StoredStep, Places
  <2>5. QED BY <1>1, <2>2, <2>3, <2>4 DEF Inv, StoredStep, BrowserOK, browserVars
<1>14. CASE Read(i)
  <2>1. At(i, "read") BY <1>14 DEF Read
  <2>2. [h EXCEPT !.pc = "register", !.answer = registered] \in Running
    BY <1>1, <1>2, <2>1 DEF Running, Places, BrowserOK
  <2>3. WorkerOK' BY <1>2, <1>14, <2>1, <2>2, GoesIsTyped DEF Read, Quiet
  <2>4. QED BY <1>1, <1>14, <2>3 DEF Inv, Read, Quiet, BrowserOK, browserVars
<1>15. CASE Register(i)
  <2>1. At(i, "register") BY <1>15 DEF Register
  <2>2. Handler("snapshot", "look", {}) \in Running BY <1>1, HandlerIsTyped DEF Kinds, Places
  <2>3. Afterwards(h) \in Running \cup {Nothing}
    BY <1>2, <2>1, <2>2 DEF Afterwards, Running, Places
  <2>4. Goes(i, Afterwards(h)) \/ Ends(i) BY <1>15 DEF Register
  <2>5. UNCHANGED running BY <1>15 DEF Register
  <2>6. WorkerOK' BY <1>2, <1>4, <2>1, <2>3, <2>4, <2>5, GoesIsTyped
  <2>7. registered' = registered \/ registered' = h.state.enabled BY <1>15 DEF Register, Matches
  <2>8. registered' \subseteq Sites BY <1>1, <1>2, <2>1, <2>7 DEF BrowserOK, Tidy
  <2>9. UNCHANGED <<granted, site, script, active, stored, events>> BY <1>15 DEF Register
  <2>10. QED BY <1>1, <2>6, <2>8, <2>9 DEF Inv, BrowserOK
<1>16. CASE Inject(i)
  <2>1. At(i, "inject") /\ Ends(i) /\ UNCHANGED running BY <1>16 DEF Inject
  <2>2. WorkerOK' BY <1>4, <2>1
  <2>3. script' \in [Tabs -> BOOLEAN] BY <1>1, <1>16 DEF Inject, BrowserOK
  <2>4. UNCHANGED <<granted, registered, site, active, stored, events>> BY <1>16 DEF Inject
  <2>5. QED BY <1>1, <2>2, <2>3, <2>4 DEF Inv, BrowserOK
<1>17. CASE Attach(i)
  <2>1. At(i, "attach") /\ UNCHANGED running BY <1>17 DEF Attach
  <2>2. Handler("snapshot", "look", {}) \in Running BY <1>1, HandlerIsTyped DEF Kinds, Places
  <2>3. Goes(i, Handler("snapshot", "look", {})) \/ Ends(i) BY <1>17 DEF Attach
  <2>4. WorkerOK' BY <1>2, <1>4, <2>1, <2>2, <2>3, GoesIsTyped
  <2>5. script' \in [Tabs -> BOOLEAN] BY <1>1, <1>17 DEF Attach, BrowserOK
  <2>6. UNCHANGED <<granted, registered, site, active, stored, events>> BY <1>17 DEF Attach
  <2>7. QED BY <1>1, <2>4, <2>5, <2>6 DEF Inv, BrowserOK
<1>18. QED
  BY <1>5, <1>6, <1>7, <1>8, <1>9, <1>10, <1>11, <1>12, <1>13, <1>14, <1>15, <1>16, <1>17 DEF Step

(* The browser's events and its stops of the worker (main).                *)
LEMMA NextInv == ASSUME Inv, [Next]_vars PROVE Inv'
<1>1. BrowserOK /\ stored \in Tidy /\ WorkerOK BY DEF Inv
<1>2. CASE User BY <1>2, UserInv
<1>3. ASSUME NEW i \in Slots, Step(i) PROVE Inv' BY <1>3, StepInv
<1>4. CASE Deliver
  <2> DEFINE e == Head(events)
  <2>1. e \in Event /\ Tail(events) \in Seq(Event) BY <1>1, <1>4 DEF Deliver, BrowserOK
  <2>2. e.kind \in {"added", "removed"} /\ e.sites \in SUBSET Sites BY <2>1 DEF Event
  <2>3. Handler(e.kind, FirstStep(e.kind), e.sites) \in Running
    BY <1>1, <2>2, HandlerIsTyped DEF FirstStep, Kinds, Places
  <2>4. Starts(Handler(e.kind, FirstStep(e.kind), e.sites)) BY <1>4 DEF Deliver
  <2>5. WorkerOK' BY <2>3, <2>4, StartsIsTyped
  <2>6. events' = Tail(events) /\ UNCHANGED <<browserVars, stored>> BY <1>4 DEF Deliver
  <2>7. QED BY <1>1, <2>1, <2>5, <2>6 DEF Inv, BrowserOK, browserVars
<1>5. CASE Sleep BY <1>1, <1>5 DEF Sleep, Inv, BrowserOK, browserVars, WorkerOK, Idle
<1>6. CASE Wake
  <2>1. Initialize \in Running BY <1>1, InitializeIsTyped
  <2>2. WorkerOK' BY <1>6, <2>1 DEF Wake, WorkerOK
  <2>3. QED BY <1>1, <1>6, <2>2 DEF Wake, Inv, BrowserOK, browserVars
<1>7. CASE Stop
  <2>1. WorkerOK' BY <1>7 DEF Stop, WorkerOK, Idle
  <2>2. QED BY <1>1, <1>7, <2>1 DEF Stop, Inv, BrowserOK, browserVars
<1>8. CASE UNCHANGED vars
  BY <1>1, <1>8 DEF vars, Inv, BrowserOK, browserVars, WorkerOK, Idle
<1>9. QED BY <1>2, <1>3, <1>4, <1>5, <1>6, <1>7, <1>8 DEF Next

(* Every reachable state satisfies the invariant.                          *)
LEMMA Invariant == Spec => []Inv
BY InitInv, NextInv, PTL DEF Spec

(* Every record names known sites, the relay's own origins stay permitted  *)
(* and no handler runs without a worker (removeAllGrantedOrigins).         *)
THEOREM TypeCorrect == Spec => []TypeOK
<1>1. Inv => TypeOK BY DEF Inv, BrowserOK, WorkerOK, Tidy, TypeOK
<1>2. QED BY <1>1, Invariant, PTL

(* For any number of handlers that load, wait and save, no site is enabled *)
(* and revoked at once (addRevokedSite, reconcileAllPermissions).          *)
THEOREM RevocationsHold == Spec => []EnabledNotRevoked
<1>1. Inv => EnabledNotRevoked BY DEF Inv, Tidy, EnabledNotRevoked
<1>2. QED BY <1>1, Invariant, PTL

-----------------------------------------------------------------------------
\* Listeners. A removal is noticed while its event or the first step of its
\* handler is to come.

EventWaits == \E k \in DOMAIN events : events[k].kind = "removed"
HandlerWaits == \E i \in Slots : At(i, "silence") /\ handlers[i].kind = "removed"
Heard(t) == script[t] /\ site[t] \notin granted

(* An event stays in the browser's queue behind those that come later.     *)
LEMMA EventsStay ==
  ASSUME events \in Seq(Event), EventWaits,
         events' = events \/ \E e \in Event : events' = Append(events, e)
  PROVE  EventWaits'
<1>1. PICK k \in DOMAIN events : events[k].kind = "removed" BY DEF EventWaits
<1>2. k \in DOMAIN events' /\ events'[k] = events[k] BY <1>1
<1>3. QED BY <1>1, <1>2 DEF EventWaits

(* A removal's event waits as soon as the permission is gone (onRemoved).   *)
LEMMA EventComes ==
  ASSUME events \in Seq(Event), NEW e \in Event, e.kind = "removed", events' = Append(events, e)
  PROVE  EventWaits'
<1>1. Len(events) + 1 \in DOMAIN events' /\ events'[Len(events) + 1] = e OBVIOUS
<1>2. QED BY <1>1 DEF EventWaits

(* Starting a handler takes a free slot.                                    *)
LEMMA StartsKeeps ==
  ASSUME Inv, NEW h, Starts(h), HandlerWaits PROVE HandlerWaits'
<1>1. PICK k \in Slots : At(k, "silence") /\ handlers[k].kind = "removed" BY DEF HandlerWaits
<1>2. k \notin Free BY <1>1 DEF At, Free
<1>3. handlers \in [Slots -> Running \cup {Nothing}] BY DEF Inv, WorkerOK
<1>4. handlers'[k] = handlers[k]
  <2>1. CASE running BY <1>2, <1>3, <2>1 DEF Starts, Free
  <2>2. CASE ~running BY <1>2, <1>3, <2>2 DEF Starts, Free
  <2>3. QED BY <2>1, <2>2
<1>5. QED BY <1>1, <1>4 DEF HandlerWaits, At

(* A step of a handler leaves the others where they are.                    *)
LEMMA GoesKeeps ==
  ASSUME Inv, NEW i \in Slots, NEW h, Goes(i, h), HandlerWaits,
         ~(At(i, "silence") /\ handlers[i].kind = "removed")
  PROVE  HandlerWaits'
<1>1. PICK k \in Slots : At(k, "silence") /\ handlers[k].kind = "removed" BY DEF HandlerWaits
<1>2. handlers'[k] = handlers[k] BY <1>1 DEF Goes, Inv, WorkerOK
<1>3. QED BY <1>1, <1>2 DEF HandlerWaits, At

(* Whoever listens no more than before, and whatever notices it is still    *)
(* there, keep the property.                                                *)
LEMMA QuietStep ==
  ASSUME ListenersArePermitted, stopped' = stopped, \A t \in Tabs : Heard(t)' => Heard(t),
         EventWaits => EventWaits', HandlerWaits => HandlerWaits'
  PROVE  ListenersArePermitted'
BY DEF ListenersArePermitted, Heard, EventWaits, HandlerWaits

(* As soon as a removal waits, nothing is owed.                             *)
LEMMA WaitsIsEnough ==
  ASSUME EventWaits' PROVE ListenersArePermitted'
BY DEF ListenersArePermitted, EventWaits

(* The user's steps: only a withdrawal leaves a listener without its        *)
(* permission, and it has its event (permissions.onRemoved).                *)
LEMMA UserKeeps == ASSUME Inv, ListenersArePermitted, User PROVE ListenersArePermitted'
<1>1. events \in Seq(Event) /\ site \in [Tabs -> Sites \cup {NoSite}] /\ script \in [Tabs -> BOOLEAN]
  BY DEF Inv, BrowserOK
<1>2. ASSUME NEW t \in Tabs \cup {Elsewhere}, Activate(t) PROVE ListenersArePermitted'
  BY <1>2, QuietStep DEF Activate, Heard, EventWaits, HandlerWaits, At
<1>3. ASSUME NEW t \in Tabs, NEW s \in Sites \cup {NoSite}, Navigate(t, s) PROVE ListenersArePermitted'
  <2>1. \A u \in Tabs : Heard(u)' => Heard(u) BY <1>1, <1>3 DEF Navigate, Heard
  <2>2. QED BY <1>3, <2>1, QuietStep DEF Navigate, EventWaits, HandlerWaits, At
<1>4. ASSUME NEW h, Request(h), UNCHANGED <<browserVars, events>> PROVE ListenersArePermitted'
  <2>1. HandlerWaits => HandlerWaits' BY <1>4, StartsKeeps DEF Request
  <2>2. QED BY <1>4, <2>1, QuietStep DEF Request, browserVars, Heard, EventWaits
<1>5. CASE Allow
  <2>1. HandlerWaits => HandlerWaits' BY <1>5, StartsKeeps DEF Allow, Request
  <2>2. [kind |-> "added", sites |-> {Here}] \in Event BY <1>5 DEF Event, Allow
  <2>3. events' = events \/ \E e \in Event : events' = Append(events, e) BY <1>5, <2>2 DEF Allow
  <2>4. EventWaits => EventWaits' BY <1>1, <2>3, EventsStay
  <2>5. \A u \in Tabs : Heard(u)' => Heard(u) BY <1>5 DEF Allow, Heard
  <2>6. QED BY <1>5, <2>1, <2>4, <2>5, QuietStep DEF Allow, Request
<1>6. ASSUME NEW s \in Sites, Withdraw(s) PROVE ListenersArePermitted'
  <2>1. [kind |-> "removed", sites |-> {s}] \in Event BY DEF Event
  <2>2. EventWaits' BY <1>1, <1>6, <2>1, EventComes DEF Withdraw
  <2>3. QED BY <2>2, WaitsIsEnough
<1>7. CASE Bootstrap BY <1>4, <1>7 DEF Bootstrap
<1>8. CASE Probe BY <1>4, <1>8 DEF Probe
<1>9. CASE Revoke BY <1>4, <1>9 DEF Revoke
<1>10. CASE DeleteLocalData BY <1>4, <1>10 DEF DeleteLocalData
<1>11. CASE ClearRevokedSites
  BY <1>11, QuietStep DEF ClearRevokedSites, browserVars, Heard, EventWaits, HandlerWaits, At
<1>12. QED BY <1>2, <1>3, <1>5, <1>6, <1>7, <1>8, <1>9, <1>10, <1>11 DEF User

(* A step of another place than the first of a removal.                     *)
LEMMA LaterStepKeeps ==
  ASSUME Inv, ListenersArePermitted, NEW i \in Slots, ~At(i, "silence"), NEW h, Goes(i, h),
         UNCHANGED <<events, stopped>>, \A t \in Tabs : Heard(t)' => Heard(t)
  PROVE  ListenersArePermitted'
<1>1. HandlerWaits => HandlerWaits' BY GoesKeeps
<1>2. QED BY <1>1, QuietStep DEF EventWaits

(* A handler makes somebody listen only where the permission is still held, *)
(* and takes no permission without an event (injectCaptureScript,           *)
(* permissions.remove).                                                     *)
LEMMA StepKeeps == ASSUME Inv, ListenersArePermitted, NEW i \in Slots, Step(i) PROVE ListenersArePermitted'
<1>1. events \in Seq(Event) /\ site \in [Tabs -> Sites \cup {NoSite}] /\ script \in [Tabs -> BOOLEAN]
  BY DEF Inv, BrowserOK
<1>h. DEFINE h == handlers[i]
<1>2. CASE Silence(i)
  <2>1. At(i, "silence") /\ script' = [t \in Tabs |-> script[t] /\ h.kind = "revoke" /\ site[t] \notin h.sites]
    BY <1>2 DEF Silence
  <2>2. UNCHANGED <<granted, site, events, stopped>> BY <1>2 DEF Silence
  <2>3. CASE h.kind = "removed"
    <3>1. \A t \in Tabs : ~script'[t] BY <2>1, <2>3
    <3>2. QED BY <3>1 DEF ListenersArePermitted
  <2>4. CASE h.kind # "removed"
    <3>1. PICK new : Goes(i, new) BY <1>2 DEF Silence, To
    <3>2. HandlerWaits => HandlerWaits' BY <2>4, <3>1, GoesKeeps
    <3>3. \A t \in Tabs : Heard(t)' => Heard(t) BY <1>1, <2>1, <2>2 DEF Heard
    <3>4. QED BY <2>2, <3>2, <3>3, QuietStep DEF EventWaits
  <2>5. QED BY <2>3, <2>4
<1>3. CASE Remove(i)
  <2>1. At(i, "remove") BY <1>3 DEF Remove
  <2>2. h.sites \in SUBSET Sites BY <2>1, AtIsTyped
  <2>3. CASE Gone(h) = {}
    <3>1. UNCHANGED <<granted, events, site, script, stopped>> BY <1>3, <2>3 DEF Remove
    <3>2. PICK new : Goes(i, new) BY <1>3 DEF Remove, To
    <3>3. ~At(i, "silence") BY <2>1 DEF At
    <3>4. QED BY <3>1, <3>2, <3>3, LaterStepKeeps DEF Heard
  <2>4. CASE Gone(h) # {}
    <3>1. granted \subseteq Sites BY DEF Inv, BrowserOK
    <3>2. [kind |-> "removed", sites |-> Gone(h)] \in Event BY <2>2, <3>1 DEF Event, Gone
    <3>3. events' = Append(events, [kind |-> "removed", sites |-> Gone(h)]) BY <1>3, <2>4 DEF Remove
    <3>4. EventWaits' BY <1>1, <3>2, <3>3, EventComes
    <3>5. QED BY <3>4, WaitsIsEnough
  <2>5. QED BY <2>3, <2>4
<1>4. CASE Inject(i)
  <2>1. At(i, "inject") /\ Goes(i, Nothing) BY <1>4 DEF Inject, Ends
  <2>2. UNCHANGED <<granted, site, events, stopped>> BY <1>4 DEF Inject
  <2>3. script' = [t \in Tabs |-> script[t] \/ site[t] \in h.state.enabled \cap granted]
    BY <1>4 DEF Inject
  <2>4. \A t \in Tabs : Heard(t)' => Heard(t) BY <1>1, <2>2, <2>3 DEF Heard
  <2>5. QED BY <2>1, <2>2, <2>4, LaterStepKeeps DEF At
<1>5. CASE Attach(i)
  <2>1. At(i, "attach") /\ \E new : Goes(i, new) BY <1>5 DEF Attach, Ends
  <2>2. UNCHANGED <<granted, site, events, stopped>> BY <1>5 DEF Attach
  <2>3. script' = [script EXCEPT ![h.tab] = @ \/ site[h.tab] \in granted] BY <1>5 DEF Attach
  <2>4. \A t \in Tabs : Heard(t)' => Heard(t) BY <1>1, <2>2, <2>3 DEF Heard
  <2>5. QED BY <2>1, <2>2, <2>4, LaterStepKeeps DEF At
<1>6. ASSUME NEW pc, pc # "silence", At(i, pc), NEW new, Goes(i, new),
             UNCHANGED <<granted, site, script, events, stopped>>
      PROVE  ListenersArePermitted'
  BY <1>6, LaterStepKeeps DEF At, Heard
<1>7. CASE Check(i) BY <1>6, <1>7 DEF Check, To, Ends, Quiet, browserVars
<1>8. CASE Write(i) BY <1>6, <1>8 DEF Write, StoredStep, browserVars
<1>9. CASE Survey(i) BY <1>6, <1>9 DEF Survey, Quiet, browserVars
<1>10. CASE SaveSurvey(i) BY <1>6, <1>10 DEF SaveSurvey, StoredStep, browserVars
<1>11. CASE Wipe(i) BY <1>6, <1>11 DEF Wipe, StoredStep, browserVars
<1>12. CASE Look(i) BY <1>6, <1>12 DEF Look, Ends, Quiet, browserVars
<1>13. CASE Note(i) BY <1>6, <1>13 DEF Note, To, StoredStep, browserVars
<1>14. CASE Read(i) BY <1>6, <1>14 DEF Read, Quiet, browserVars
<1>15. CASE Register(i) BY <1>6, <1>15 DEF Register, Ends
<1>16. QED
  BY <1>2, <1>3, <1>4, <1>5, <1>7, <1>8, <1>9, <1>10, <1>11, <1>12, <1>13, <1>14, <1>15 DEF Step

(* A removal that is delivered becomes a handler at its first step; a       *)
(* worker that is stopped is excused.                                       *)
LEMMA NextKeeps == ASSUME Inv, ListenersArePermitted, [Next]_vars PROVE ListenersArePermitted'
<1>1. events \in Seq(Event) /\ handlers \in [Slots -> Running \cup {Nothing}]
  BY DEF Inv, BrowserOK, WorkerOK
<1>2. CASE User BY <1>2, UserKeeps
<1>3. ASSUME NEW i \in Slots, Step(i) PROVE ListenersArePermitted' BY <1>3, StepKeeps
<1>4. CASE Deliver
  <2> DEFINE e == Head(events)
             new == Handler(e.kind, FirstStep(e.kind), e.sites)
  <2>1. Starts(new) /\ events' = Tail(events) /\ events # <<>> BY <1>4 DEF Deliver
  <2>2. UNCHANGED <<site, script, granted, stopped>> BY <1>4 DEF Deliver, browserVars
  <2>3. CASE e.kind = "removed"
    <3>1. new.kind = "removed" /\ new.pc = "silence" BY <2>3 DEF Handler, FirstStep
    <3>2. new # Nothing BY <3>1 DEF Nothing
    <3>3. \E k \in Slots : handlers'[k] = new BY <1>1, <2>1 DEF Starts, Free
    <3>4. HandlerWaits' BY <3>1, <3>2, <3>3 DEF HandlerWaits, At
    <3>5. QED BY <3>4 DEF HandlerWaits, ListenersArePermitted
  <2>4. CASE e.kind # "removed"
    <3>1. HandlerWaits => HandlerWaits' BY <2>1, StartsKeeps
    <3>2. ASSUME EventWaits PROVE EventWaits'
      <4>1. PICK k \in DOMAIN events : events[k].kind = "removed" BY <3>2 DEF EventWaits
      <4>2. k # 1 BY <1>1, <2>1, <2>4, <4>1
      <4>3. k - 1 \in DOMAIN events' /\ events'[k - 1] = events[k] BY <1>1, <2>1, <4>1, <4>2
      <4>4. QED BY <4>1, <4>3 DEF EventWaits
    <3>3. QED BY <2>2, <3>1, <3>2, QuietStep DEF Heard
  <2>5. QED BY <2>3, <2>4
<1>5. CASE Sleep
  BY <1>5, QuietStep DEF Sleep, browserVars, Heard, EventWaits, HandlerWaits, At
<1>6. CASE Wake
  <2>1. ~HandlerWaits BY <1>6 DEF Wake, Inv, WorkerOK, Idle, HandlerWaits, At
  <2>2. QED BY <1>6, <2>1, QuietStep DEF Wake, browserVars, Heard, EventWaits
<1>7. CASE Stop BY <1>7 DEF Stop, ListenersArePermitted
<1>8. CASE UNCHANGED vars
  BY <1>8, QuietStep DEF vars, browserVars, Heard, EventWaits, HandlerWaits, At
<1>9. QED BY <1>2, <1>3, <1>4, <1>5, <1>6, <1>7, <1>8 DEF Next

(* In a worker the browser does not interrupt, no script outlives its       *)
(* site's permission by more than the removal's own handler                 *)
(* (uninstallCaptureEverywhere).                                            *)
THEOREM ListenersGoWithPermission == Spec => []ListenersArePermitted
<1>1. Init => ListenersArePermitted BY DEF Init, ListenersArePermitted
<1>2. Inv /\ ListenersArePermitted /\ [Next]_vars => ListenersArePermitted' BY NextKeeps
<1>3. QED BY <1>1, <1>2, Invariant, PTL DEF Spec
=============================================================================
