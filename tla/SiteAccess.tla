------------------------------ MODULE SiteAccess ------------------------------
(***************************************************************************)
(* On which sites the extension listens (entrypoints/background.ts). Four  *)
(* places tell it: the permissions the browser holds, the enabled and the  *)
(* revoked sites in the stored state, the content script registered for    *)
(* coming pages, and the scripts attached to pages that are open. No call  *)
(* changes two of them, every call is awaited, and only the changes of the *)
(* stored state are queued. Handlers of the panel's requests, of the       *)
(* browser's permission events and of the worker's start interleave.       *)
(*                                                                         *)
(* A site stands for its origin and its permission pattern. The relay's    *)
(* own origins are permitted by the manifest: nobody can take that away.   *)
(***************************************************************************)
EXTENDS Naturals, Sequences, FiniteSets

CONSTANTS
  Sites,
  Relay,       \* relayNetworkOrigins
  Tabs,
  Elsewhere,   \* what is active when none of them is
  Slots,       \* bound: handlers at a time
  MaxActions,  \* bound: what the user does and how often the browser stops a busy worker
  NoSite       \* a page that is not supported

ASSUME SiteAccessAssumption ==
  Relay \subseteq Sites /\ NoSite \notin Sites /\ Elsewhere \notin Tabs /\ Slots # {} /\ MaxActions \in Nat

VARIABLES
  granted,     \* the browser's host permissions
  stored,      \* enabledOrigins and settings.revokedSites
  registered,  \* matches of the registered content script; {}: not registered
  site,        \* per tab: what it shows
  script,      \* per tab: is the capture script attached?
  active,      \* the active tab of the focused window
  events,      \* permissions.onAdded and onRemoved not yet delivered
  handlers,    \* per slot: a running handler
  running,     \* is there a worker?
  stopped,     \* history: did the browser stop a worker that was busy?
  actions      \* history: counts up to MaxActions

browserVars == <<granted, registered, site, script, active>>
vars == <<browserVars, stored, events, handlers, running, stopped, actions>>

Initial == [enabled |-> {}, revoked |-> {}]   \* createInitialExtensionState
Nothing == [kind |-> "nothing"]
\* A handler: what it waits to do next, the sites and the tab it is about, the
\* state it loaded or saved, and what the browser answered.
Handler(kind, pc, sites) ==
  [kind |-> kind, pc |-> pc, sites |-> sites, tab |-> active, state |-> Initial, answer |-> {}]
Initialize == Handler("init", "survey", {})

\* addRevokedSite and its inverse: a site is in one of the two.
EnableOnly(s, S) == [s EXCEPT !.enabled = @ \cup S]   \* broken: keeps the revocation
Enable(s, S) == [enabled |-> s.enabled \cup S, revoked |-> s.revoked \ S]
Disable(s, S) == [enabled |-> s.enabled \ S, revoked |-> s.revoked \cup S]

-----------------------------------------------------------------------------
Free == {i \in Slots : handlers[i] = Nothing}
\* A request or an event wakes the worker, which initializes itself as well.
Starts(h) ==
  IF running
  THEN \E i \in Free : handlers' = [handlers EXCEPT ![i] = h] /\ UNCHANGED running
  ELSE \E i, j \in Free :
         /\ i # j /\ handlers' = [handlers EXCEPT ![i] = h, ![j] = Initialize]
         /\ running' = TRUE
Goes(i, h) == handlers' = [handlers EXCEPT ![i] = h]
Ends(i) == Goes(i, Nothing)
At(i, pc) == handlers[i] # Nothing /\ handlers[i].pc = pc
To(i, pc) == Goes(i, [handlers[i] EXCEPT !.pc = pc])

\* queueStorageWrite: a job in several steps keeps the queue. The snapshot
\* after deleteAllSecureExtensionData does not use it.
InJob(h) ==
  /\ h # Nothing
  /\ \/ h.kind = "init" /\ h.pc = "save"
     \/ h.kind = "snapshot" /\ h.pc \in {"note", "read", "register"}
Queue == \A i \in Slots : ~InJob(handlers[i])

Here == IF active \in Tabs THEN site[active] ELSE NoSite

-----------------------------------------------------------------------------
\* The user and the browser.
Acts == actions < MaxActions /\ actions' = actions + 1
Request(h) == Acts /\ Starts(h) /\ UNCHANGED <<stored, stopped>>

\* A new page: the browser attaches the registered script where it may.
Navigate(t, s) ==
  /\ Acts
  /\ site' = [site EXCEPT ![t] = s]
  /\ script' = [script EXCEPT ![t] = s \in registered \cap granted]
  /\ UNCHANGED <<granted, registered, active, stored, events, handlers, running, stopped>>
Activate(t) ==
  /\ Acts /\ t # active /\ active' = t
  /\ UNCHANGED <<granted, registered, site, script, stored, events, handlers, running, stopped>>

\* enableCurrentSite: the user allows the site of the active tab in the
\* browser's dialog; the panel sends PERMISSION_RESULT.
Allow ==
  /\ Here \in Sites
  /\ granted' = granted \cup {Here}
  /\ events' = IF Here \in granted THEN events
               ELSE Append(events, [kind |-> "added", sites |-> {Here}])
  /\ Request(Handler("result", "check", {Here}))
  /\ UNCHANGED <<registered, site, script, active>>
\* The user takes a permission away in the browser's own settings.
Withdraw(s) ==
  /\ Acts
  /\ s \in granted \ Relay
  /\ granted' = granted \ {s}
  /\ events' = Append(events, [kind |-> "removed", sites |-> {s}])
  /\ UNCHANGED <<registered, site, script, active, stored, handlers, running, stopped>>

\* BOOTSTRAP, UPDATE_SETTINGS and the like: a snapshot. PROBE_CURRENT_SITE
\* attaches the script as well.
Bootstrap == Request(Handler("snapshot", "look", {})) /\ UNCHANGED <<browserVars, events>>
Probe ==
  /\ Here \in granted \cap stored.enabled
  /\ Request(Handler("probe", "attach", {Here}))
  /\ UNCHANGED <<browserVars, events>>
\* REVOKE_CURRENT_SITE: a snapshot that shows an enabled site.
Revoke ==
  /\ Here \in granted \cap stored.enabled /\ Queue
  /\ Request(Handler("revoke", "silence", {Here}))
  /\ UNCHANGED <<browserVars, events>>
DeleteLocalData ==
  Request(Handler("delete", "silence", {})) /\ UNCHANGED <<browserVars, events>>
ClearRevokedSites ==
  /\ Acts /\ Queue /\ running
  /\ stored' = [stored EXCEPT !.revoked = {}]
  /\ UNCHANGED <<browserVars, events, handlers, running, stopped>>

\* updateOriginsFromPermissionEvent starts: before a site is disabled, nothing
\* listens any more.
FirstStepWrite(kind) == "write"   \* broken: what listens is not asked to stop
FirstStep(kind) == IF kind = "added" THEN "write" ELSE "silence"
Deliver ==
  /\ events # <<>>
  /\ LET e == Head(events) IN
     Starts(Handler(e.kind, FirstStep(e.kind), e.sites))
  /\ events' = Tail(events)
  /\ UNCHANGED <<browserVars, stored, stopped, actions>>

-----------------------------------------------------------------------------
\* The steps of a handler. A call that the browser rejects ends it.
Quiet == UNCHANGED <<browserVars, stored, events, running, stopped, actions>>
StoredStep == UNCHANGED <<browserVars, events, running, stopped, actions>>

\* uninstallCaptureEverywhere, and uninstallCaptureForOrigin when the panel
\* revokes one site.
Silence(i) ==
  LET h == handlers[i] IN
  /\ At(i, "silence")
  /\ script' = [t \in Tabs |-> script[t] /\ h.kind = "revoke" /\ site[t] \notin h.sites]
  /\ To(i, CASE h.kind = "removed" -> "write"
             [] h.kind = "delete" -> "read"
             [] OTHER -> IF h.sites \subseteq Relay THEN "write" ELSE "remove")
  /\ UNCHANGED <<granted, registered, site, active, stored, events, running, stopped, actions>>

\* handlePermissionResult: the tab shows the site still, and it is permitted.
Check(i) ==
  /\ At(i, "check")
  /\ IF handlers[i].tab = active /\ {Here} = handlers[i].sites /\ Here \in granted THEN To(i, "write") ELSE Ends(i)
  /\ Quiet

\* permissions.remove, of the revoked site or of all.
Gone(h) == (IF h.kind = "delete" THEN granted ELSE h.sites \cap granted) \ Relay
Remove(i) ==
  LET h == handlers[i] gone == Gone(h) IN
  /\ At(i, "remove")
  /\ granted' = granted \ gone
  /\ events' = IF gone = {} THEN events ELSE Append(events, [kind |-> "removed", sites |-> gone])
  /\ To(i, IF h.kind = "delete" THEN "wipe" ELSE "write")
  /\ UNCHANGED <<registered, site, script, active, stored, running, stopped, actions>>

\* The queued writes. An event that adds a relay's origin enables nothing.
Added(s, S) == Enable(s, {x \in S : x \notin Relay \/ x \in s.enabled})
Removed(s, S) == Disable(s, S \cap s.enabled)
Write(i) ==
  LET h == handlers[i]
      new == CASE h.kind = "added" -> Added(stored, h.sites)
               [] h.kind = "removed" -> Removed(stored, h.sites)
               [] h.kind = "result" -> Enable(stored, h.sites)
               [] OTHER -> Disable(stored, h.sites) IN
  /\ At(i, "write") /\ Queue
  /\ stored' = new
  /\ Goes(i, [h EXCEPT !.pc = "read", !.state = new])
  /\ StoredStep

\* initializeExtension: permissions.getAll and reconcileAllPermissions.
Survey(i) ==
  /\ At(i, "survey") /\ Queue
  /\ Goes(i, [handlers[i] EXCEPT !.pc = "save", !.state = stored, !.answer = granted])
  /\ Quiet
ReconcileGrantedOnly(s, found) == Enable(s, found \ Relay)   \* broken: enables, but disables nothing
Reconcile(s, found) == Enable(Disable(s, s.enabled \ found), found \ (Relay \cup s.enabled))
SaveSurvey(i) ==
  LET h == handlers[i]
      new == Reconcile(h.state, h.answer) IN
  /\ At(i, "save")
  /\ stored' = IF new = h.state THEN stored ELSE new
  /\ Goes(i, [h EXCEPT !.pc = "read", !.state = new, !.answer = {}])
  /\ StoredStep

\* deleteAllSecureExtensionData; the snapshot that follows starts from its result.
Wipe(i) ==
  /\ At(i, "wipe") /\ Queue
  /\ stored' = Initial
  /\ Goes(i, Handler("last", "look", {}))
  /\ StoredStep

\* reconcileCurrentSite: what is the active tab's site, and is it permitted?
CurrentSite(s, x, permitted) ==
  CASE permitted /\ x \notin s.enabled \cup Relay -> Enable(s, {x})
    [] ~permitted /\ x \in s.enabled -> Disable(s, {x})
    [] OTHER -> s
Look(i) ==
  LET h == handlers[i]
      base == IF h.kind = "last" THEN Initial ELSE stored
      new == CurrentSite(base, Here, Here \in granted) IN
  /\ At(i, "look") /\ (h.kind = "last" \/ Queue)
  /\ IF Here = NoSite \/ new = base THEN Ends(i)
     ELSE Goes(i, [h EXCEPT !.pc = "note", !.state = new])
  /\ Quiet
Note(i) ==
  /\ At(i, "note")
  /\ stored' = handlers[i].state
  /\ To(i, "read")
  /\ StoredStep

-----------------------------------------------------------------------------
\* syncCaptureRegistration asks for the registration and then registers,
\* updates or unregisters. The browser rejects a second registration, and an
\* update of none.
Read(i) ==
  /\ At(i, "read")
  /\ Goes(i, [handlers[i] EXCEPT !.pc = "register", !.answer = registered])
  /\ Quiet
Afterwards(h) ==
  CASE h.kind \in {"added", "removed", "init"} -> [h EXCEPT !.pc = "inject", !.answer = {}]
    [] h.kind = "result" -> [h EXCEPT !.pc = "attach", !.answer = {}]
    [] h.kind = "revoke" -> Handler("snapshot", "look", {})
    [] h.kind = "delete" -> [h EXCEPT !.pc = "remove", !.answer = {}]
    [] OTHER -> Nothing
Matches(h) == h.state.enabled
Register(i) ==
  LET h == handlers[i] IN
  /\ At(i, "register")
  /\ IF Matches(h) = {} /\ h.answer = {} THEN Goes(i, Afterwards(h)) /\ UNCHANGED registered
     ELSE IF (h.answer = {}) = (registered = {})
     THEN registered' = Matches(h) /\ Goes(i, Afterwards(h))
     ELSE Ends(i) /\ UNCHANGED registered
  /\ UNCHANGED <<granted, site, script, active, stored, events, running, stopped, actions>>

\* injectCaptureForEnabledTabs, and injectCaptureScript for the panel's tab.
Inject(i) ==
  /\ At(i, "inject")
  /\ script' = [t \in Tabs |-> script[t] \/ site[t] \in handlers[i].state.enabled \cap granted]
  /\ Ends(i)
  /\ UNCHANGED <<granted, registered, site, active, stored, events, running, stopped, actions>>
Attach(i) ==
  LET h == handlers[i] may == site[h.tab] \in granted IN
  /\ At(i, "attach")
  /\ script' = [script EXCEPT ![h.tab] = @ \/ may]
  /\ IF may /\ h.kind = "result" THEN Goes(i, Handler("snapshot", "look", {})) ELSE Ends(i)
  /\ UNCHANGED <<granted, registered, site, active, stored, events, running, stopped, actions>>

-----------------------------------------------------------------------------
\* The browser stops an idle worker, and starts one for an alarm or for any
\* event of a tab; main initializes it. After an installation or a start of the
\* browser a second initialization runs, for onInstalled or onStartup.
Idle == \A i \in Slots : handlers[i] = Nothing
Sleep ==
  /\ running /\ Idle /\ events = <<>>
  /\ running' = FALSE
  /\ UNCHANGED <<browserVars, stored, events, handlers, stopped, actions>>
Wake ==
  /\ ~running
  /\ \E i, j \in Slots :
       handlers' = [k \in Slots |-> IF k \in {i, j} THEN Initialize ELSE Nothing]
  /\ running' = TRUE
  /\ UNCHANGED <<browserVars, stored, events, stopped, actions>>
\* It may also stop a busy one, and with it all that it was doing.
Stop ==
  /\ running /\ ~Idle /\ Acts
  /\ handlers' = [i \in Slots |-> Nothing]
  /\ running' = FALSE /\ stopped' = TRUE
  /\ UNCHANGED <<browserVars, stored, events>>

User ==
  \/ \E t \in Tabs \cup {Elsewhere} : Activate(t)
  \/ \E t \in Tabs, s \in Sites \cup {NoSite} : Navigate(t, s)
  \/ Allow \/ Bootstrap \/ Probe \/ Revoke \/ DeleteLocalData \/ ClearRevokedSites
  \/ \E s \in Sites : Withdraw(s)
Step(i) ==
  \/ Silence(i) \/ Check(i) \/ Remove(i) \/ Write(i) \/ Survey(i) \/ SaveSurvey(i)
  \/ Wipe(i) \/ Look(i) \/ Note(i) \/ Read(i) \/ Register(i) \/ Inject(i) \/ Attach(i)

\* The extension has just been installed, or the browser started.
Init ==
  /\ granted = Relay /\ stored = Initial /\ registered = {}
  /\ site \in [Tabs -> Sites \cup {NoSite}] /\ script = [t \in Tabs |-> FALSE]
  /\ active \in Tabs
  /\ events = <<>>
  /\ \E i, j \in Slots :
       i # j /\ handlers = [k \in Slots |-> IF k \in {i, j} THEN Initialize ELSE Nothing]
  /\ running = TRUE /\ stopped = FALSE /\ actions = 0
Next == User \/ (\E i \in Slots : Step(i)) \/ Deliver \/ Sleep \/ Wake \/ Stop

\* The worker's calls return, the browser delivers its events, stops an idle
\* worker and starts it again, at the latest with the alarm of every minute.
Fairness ==
  /\ \A i \in Slots : WF_vars(Step(i))
  /\ WF_vars(Deliver) /\ WF_vars(Sleep) /\ WF_vars(Wake)
Spec == Init /\ [][Next]_vars /\ Fairness

-----------------------------------------------------------------------------
(* Every record names known sites only, the relay's own origins stay       *)
(* permitted whoever removes permissions, and no handler runs without a    *)
(* worker (removeAllGrantedOrigins, revokeCurrentSite).                    *)
TypeOK ==
  /\ Relay \subseteq granted /\ granted \subseteq Sites
  /\ stored.enabled \subseteq Sites /\ stored.revoked \subseteq Sites
  /\ registered \subseteq Sites
  /\ running \/ Idle

(* A site the user revoked is not listed as enabled as well, whichever     *)
(* handler wrote the state last and however old the state it started from  *)
(* (addRevokedSite and the filters of revokedSites).                       *)
EnabledNotRevoked == stored.enabled \cap stored.revoked = {}

(* Nothing listens in a page of a site whose permission is gone: a script  *)
(* may outlive it only until the handler of that event has run, unless the *)
(* browser stopped the worker before (uninstallCaptureEverywhere).         *)
ListenersArePermitted ==
  \A t \in Tabs : script[t] /\ site[t] \notin granted /\ ~stopped =>
    \/ \E k \in DOMAIN events : events[k].kind = "removed"
    \/ \E i \in Slots : At(i, "silence") /\ handlers[i].kind = "removed"

(* However the user's requests, the browser's events and stops of the      *)
(* worker meet, in the end the four places agree: enabled is what is       *)
(* permitted (but for the relay's own origins), the registration is for    *)
(* what is enabled, and an open page of an enabled site is listened to     *)
(* (initializeExtension).                                                  *)
EventuallyConsistent ==
  <>[](/\ stored.enabled \ Relay = granted \ Relay
       /\ registered = stored.enabled
       /\ \A t \in Tabs : site[t] \in stored.enabled => script[t])
=============================================================================
