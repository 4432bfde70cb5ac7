----------------------------- MODULE Confirmation -----------------------------
(***************************************************************************)
(* How a captured attempt becomes a site confirmation: the content scripts *)
(* of entrypoints/capture.content.ts report submissions and page changes,  *)
(* the worker (entrypoints/background.ts) keeps one confirmation context   *)
(* per attempt (lib/storage-schema.ts) and the side panel reviews and      *)
(* saves what the user selected. Pages, messages and handlers interleave;  *)
(* a storage write is one step because queueStorageWrite runs them one at  *)
(* a time (what it does to the two stores is SecureStorage's subject).     *)
(*                                                                         *)
(* A URL is a privacy-safe URL with its origin. Times are coarse ticks, so *)
(* that several events share one. Permission is asked on every path and    *)
(* can only end it: here a message is lost or a handler gives up.          *)
(***************************************************************************)
EXTENDS Integers, FiniteSets

CONSTANTS
  Tabs,
  Elsewhere,      \* what is active when none of them is
  Urls,
  Origin,         \* [Urls -> origins]
  CaptureWindow,  \* SITE_CONFIRMATION_CAPTURE_WINDOW_MS, in ticks
  ReviewWindow,   \* SITE_CONFIRMATION_REVIEW_WINDOW_MS, in ticks
  MaxSessions,    \* MAX_CONFIRMATION_REVIEW_SESSIONS
  MaxHistory,     \* bound: attempts and reviews together
  MaxBusy,        \* bound: messages and handlers at a time
  MaxChanges, MaxTime,   \* bounds
  Crashes         \* does the browser stop the worker?

ASSUME ConfirmationAssumption ==
  /\ Urls \subseteq DOMAIN Origin /\ Elsewhere \notin Tabs
  /\ {CaptureWindow, ReviewWindow, MaxSessions} \subseteq Nat \ {0}
  /\ {MaxHistory, MaxBusy, MaxChanges, MaxTime} \subseteq Nat /\ Crashes \in BOOLEAN

VARIABLES
  page,      \* per tab: the document it shows
  active,    \* the active tab of the focused window
  script,    \* per tab: the content script of that document
  waiting,   \* observations that wait for the preceding capture's answer
  net,       \* messages to the worker, and those it is authorizing
  closing,   \* tabs whose onRemoved write is queued
  stored,    \* receiptIndex: each stored attempt's context and its place
  attempts,  \* history: how many capture requests were made
  reviews,   \* history: how many reviews were opened
  sessions,  \* confirmationReviewSessions
  handlers,  \* runs of beginSiteConfirmationReview and saveSiteConfirmation
  changes,   \* history: page changes and tab switches; a document's number is its change
  clock

browserVars == <<page, active, script, waiting, changes>>
workerVars == <<stored, reviews, sessions, handlers>>
vars == <<browserVars, workerVars, net, closing, attempts, clock>>

Minimum(a, b) == IF a < b THEN a ELSE b
Statuses == {"ACTIVE", "COMPLETED", "EXPIRED", "SUPERSEDED"}
None == [none |-> TRUE]   \* no request, no session

\* CaptureAttemptRequest and PageContextObservationRequest.
Capture(a, t, d, u, at) ==
  [attempt |-> a, kind |-> "SUBMIT", tab |-> t, doc |-> d, url |-> u, at |-> at,
   checked |-> FALSE]
Observation(w, u, at) ==
  [attempt |-> 0, kind |-> w.kind, tab |-> w.tab, doc |-> w.doc, url |-> u, at |-> at,
   checked |-> FALSE]
Captures == {m \in net : m.kind = "SUBMIT"}
NoScript == [last |-> None, dom |-> FALSE, timer |-> FALSE]

\* A larger nth is nearer to the front of the index.
Foremost(A) == CHOOSE a \in A : \A b \in A : stored[b].nth <= stored[a].nth
NextPlace ==
  IF DOMAIN stored = {} THEN 1 ELSE 1 + stored[Foremost(DOMAIN stored)].nth
\* createStoredAttemptReceipt: a new context, with no confirmation yet.
NewReceipt(m) ==
  [nth |-> NextPlace, tab |-> m.tab, at |-> m.at, origin |-> Origin[m.url],
   status |-> "ACTIVE", doc |-> m.doc, url |-> m.url, seq |-> 0, seen |-> m.at,
   conf |-> None, savedAt |-> 0]
ExpiresAt(r) == r.at + CaptureWindow
Expired(r, time) == time >= ExpiresAt(r)

\* expireConfirmationContext
Expire(r) == IF r.status = "ACTIVE" THEN [r EXCEPT !.status = "EXPIRED"] ELSE r

\* activeReceiptForTab: the front one, of which there is at most one.
ActiveIn(t) == {a \in DOMAIN stored : stored[a].tab = t /\ stored[a].status = "ACTIVE"}
Put(a, r) == [stored EXCEPT ![a] = r]

-----------------------------------------------------------------------------
\* recordNavigationObservation on the active receipt r of the tab; the
\* validation refuses an observation older than the latest one.
SameDocument(r, o) ==
  r.seq = 0 /\ o.kind = "DOCUMENT" /\ o.doc = r.doc /\ o.url = r.url
InOrderAny(r, o) == TRUE   \* broken: the times of observations are not compared
InOrder(r, o) == o.at >= r.seen
Observed(r, o) ==
  [r EXCEPT !.doc = o.doc, !.url = o.url, !.seq = @ + 1, !.seen = o.at]

\* handlePageContextObservation's write.
Recorded(r, o) ==
  IF Expired(r, o.at) THEN Expire(r)
  ELSE IF SameDocument(r, o) \/ ~InOrder(r, o) THEN r
  ELSE Observed(r, o)

Shown(t) == t \in Tabs /\ page[t].open

\* reconcileConfirmationContextForSite, part of every snapshot: the panel
\* notices a URL the page did not report, under the document it knows.
Reconciled(r) ==
  IF Expired(r, clock) THEN Expire(r)
  ELSE IF r.url = page[active].url THEN r
  ELSE Observed(r, [doc |-> r.doc, url |-> page[active].url, at |-> clock])
InSnapshot ==
  [a \in DOMAIN stored |->
     IF Shown(active) /\ a \in ActiveIn(active) THEN Reconciled(stored[a]) ELSE stored[a]]

\* appendAttemptReceipt.
SupersedesDoc(r, m) ==   \* broken: only the attempts of the same document
  r.status = "ACTIVE" /\ r.tab = m.tab /\ r.doc = m.doc
Supersedes(r, m) == r.status = "ACTIVE" /\ r.tab = m.tab
Appended(m) ==
  [a \in DOMAIN stored \cup {m.attempt} |->
     IF a \notin DOMAIN stored THEN NewReceipt(m)
     ELSE IF Supersedes(stored[a], m) THEN [stored[a] EXCEPT !.status = "SUPERSEDED"]
     ELSE stored[a]]

-----------------------------------------------------------------------------
\* The page and its content script.
Notice(t, kind) ==
  waiting \cup {[kind |-> kind, tab |-> t, doc |-> page[t].doc, after |-> script[t].last]}
Change == changes < MaxChanges /\ changes' = changes + 1
Others(t) == {w \in waiting : w.tab # t}
Room == attempts + reviews < MaxHistory
Free == Cardinality(net) + Cardinality(handlers) < MaxBusy
PageStep == UNCHANGED <<workerVars, net, closing, attempts, clock>>

\* capture: a request for a new attempt.
Submit(t) ==
  /\ Shown(t) /\ Room /\ Free
  /\ LET m == Capture(attempts + 1, t, page[t].doc, page[t].url, clock) IN
     /\ net' = net \cup {m}
     /\ script' = [script EXCEPT ![t].last = m, ![t].dom = FALSE]
  /\ attempts' = attempts + 1
  /\ UNCHANGED <<page, active, waiting, changes, workerVars, closing, clock>>

\* capture within CAPTURE_DEDUPE_WINDOW_MS of the same form data: the same
\* request once more.
Resubmit(t) ==
  /\ Shown(t) /\ Free
  /\ script[t].last # None /\ script[t].last.at = clock
  /\ script[t].last \notin net
  /\ net' = net \cup {script[t].last}
  /\ UNCHANGED <<browserVars, workerVars, closing, attempts, clock>>

\* A new document, in a tab that shows one already: reportDocument.
Navigate(t, u) ==
  /\ Shown(t) /\ Change
  /\ page' = [page EXCEPT ![t].url = u, ![t].doc = changes']
  /\ script' = [script EXCEPT ![t] = NoScript]
  /\ waiting' = Others(t) \cup
       {[kind |-> "DOCUMENT", tab |-> t, doc |-> changes', after |-> None]}
  /\ UNCHANGED active /\ PageStep

\* popstate and hashchange report the document's URL; history.pushState
\* changes it in silence.
History(t, u) ==
  /\ Shown(t) /\ Origin[u] = Origin[page[t].url] /\ Change
  /\ page' = [page EXCEPT ![t].url = u]
  /\ waiting' \in {waiting, Notice(t, "CHANGE")}
  /\ UNCHANGED <<active, script>> /\ PageStep

\* The first mutation after a capture is reported 250 ms later.
Mutate(t) ==
  /\ Shown(t) /\ script[t].last # None /\ ~script[t].dom /\ Change
  /\ script' = [script EXCEPT ![t].dom = TRUE, ![t].timer = TRUE]
  /\ UNCHANGED <<page, active, waiting>> /\ PageStep
DomTimer(t) ==
  /\ script[t].timer
  /\ script' = [script EXCEPT ![t].timer = FALSE]
  /\ waiting' = Notice(t, "CHANGE")
  /\ UNCHANGED <<page, active, changes>> /\ PageStep

\* sendObservation: once the capture known when it was called is answered,
\* with the URL and the time of the moment it is sent.
Send(w) ==
  /\ w.after \notin net
  /\ Free
  /\ waiting' = waiting \ {w}
  /\ net' = net \cup {Observation(w, page[w.tab].url, clock)}
  /\ UNCHANGED <<page, active, script, changes, workerVars, closing, attempts, clock>>

\* The user turns to a tab, or to a page SubmittedIt does not support.
Activate(t) ==
  /\ t # active /\ Change
  /\ active' = t
  /\ UNCHANGED <<page, script, waiting>> /\ PageStep

\* tabs.onRemoved: closeConfirmationContextForTab drops the tab's sessions at
\* once and queues the write.
CloseTab(t) ==
  /\ Shown(t)
  /\ page' = [page EXCEPT ![t].open = FALSE]
  /\ script' = [script EXCEPT ![t] = NoScript]
  /\ waiting' = Others(t)
  /\ closing' = closing \cup {t}
  /\ sessions' = {v \in sessions : v.tab # t}
  /\ UNCHANGED <<active, changes, stored, reviews, handlers, net, attempts, clock>>

-----------------------------------------------------------------------------
\* The worker. Writes that only change the stored contexts:
WriteStep == UNCHANGED <<browserVars, reviews, sessions, handlers, attempts, clock>>

\* handleCaptureAttempt, authorization and write: an attempt already stored is
\* left alone.
StoreCapture(m) ==
  /\ m.kind = "SUBMIT"
  /\ stored' = IF m.attempt \in DOMAIN stored THEN stored ELSE Appended(m)
  /\ net' = net \ {m}
  /\ WriteStep /\ UNCHANGED closing

\* authorizeObservationSender: the tab still shows the reported URL.
Authorize(m) ==
  /\ m.kind # "SUBMIT" /\ ~m.checked
  /\ page[m.tab].open /\ page[m.tab].url = m.url
  /\ net' = (net \ {m}) \cup {[m EXCEPT !.checked = TRUE]}
  /\ WriteStep /\ UNCHANGED <<stored, closing>>
StoreObservation(m) ==
  /\ m.checked
  /\ stored' = [a \in DOMAIN stored |->
                 IF a \in ActiveIn(m.tab) THEN Recorded(stored[a], m) ELSE stored[a]]
  /\ net' = net \ {m}
  /\ WriteStep /\ UNCHANGED closing
\* A message fails: rejected (its page changed, permission is gone), or the
\* write failed.
Lose(m) ==
  /\ net' = net \ {m}
  /\ WriteStep /\ UNCHANGED <<stored, closing>>

ExpireClosed(t) ==
  /\ t \in closing
  /\ stored' = [a \in DOMAIN stored |->
                 IF stored[a].tab = t THEN Expire(stored[a]) ELSE stored[a]]
  /\ closing' = closing \ {t}
  /\ WriteStep /\ UNCHANGED net

\* buildSnapshot, which every answer to the panel contains.
Snapshot ==
  /\ InSnapshot # stored /\ stored' = InSnapshot
  /\ WriteStep /\ UNCHANGED <<net, closing>>

\* deleteReceipt: of a receipt the panel shows, later than the duplicates of
\* its capture (1.5 seconds).
Delete(a) ==
  /\ a \in DOMAIN stored /\ clock > stored[a].at
  /\ \A m \in Captures : m.attempt # a
  /\ stored' = [b \in DOMAIN stored \ {a} |-> stored[b]]
  /\ WriteStep /\ UNCHANGED <<net, closing>>

-----------------------------------------------------------------------------
\* beginSiteConfirmationReview and saveSiteConfirmation.
HandlerStep == UNCHANGED <<browserVars, net, closing, attempts, clock>>
Instead(h, g) == handlers' = (handlers \ {h}) \cup {g}
Ended(h) == handlers' = handlers \ {h}
Purged == {v \in sessions : v.expiresAt > clock}

\* deriveConfirmationOpportunity on the snapshot's state: the first receipt of
\* the tab that is open or ran out.
Opportunities ==
  {a \in DOMAIN stored : stored[a].tab = active /\ stored[a].status \in {"ACTIVE", "EXPIRED"}}
Begin ==
  /\ Free /\ Room /\ Shown(active)
  /\ Opportunities # {}
  /\ stored' = InSnapshot
  /\ LET a == Foremost(Opportunities) r == InSnapshot[a] IN
     /\ r.status = "ACTIVE" /\ r.seq > 0
     /\ handlers' = handlers \cup
          {[pc |-> "select", attempt |-> a, tab |-> active, url |-> r.url]}
  /\ UNCHANGED <<reviews, sessions>> /\ HandlerStep

\* READ_VISIBLE_SELECTION in the active tab: the page under the selection.
ReadCandidate(h) ==
  /\ h.pc = "select"
  /\ active = h.tab /\ Shown(h.tab) /\ page[h.tab].url = h.url
  /\ Instead(h, [pc |-> "prepare", attempt |-> h.attempt, tab |-> h.tab, url |-> h.url,
                 doc |-> page[h.tab].doc])
  /\ UNCHANGED <<stored, reviews, sessions>> /\ HandlerStep

\* The queued part: the context takes over the document that was read, and
\* the session remembers its sequence. Storing evicts the oldest session.
Prepared(r, h) ==
  IF r.doc = h.doc /\ r.url = h.url THEN r
  ELSE Observed(r, [doc |-> h.doc, url |-> h.url, at |-> clock])
Session(r, h) ==
  [review |-> reviews + 1, attempt |-> h.attempt, tab |-> h.tab, doc |-> h.doc, url |-> h.url,
   seq |-> r.seq, moved |-> Origin[h.url] # r.origin,
   expiresAt |-> Minimum(ExpiresAt(r), clock + ReviewWindow)]
Evicted(S) ==
  IF Cardinality(S) < MaxSessions THEN S
  ELSE S \ {CHOOSE v \in S : \A w \in S : v.review <= w.review}
Prepare(h) ==
  /\ h.pc = "prepare" /\ Room
  /\ h.attempt \in DOMAIN stored
  /\ LET r == stored[h.attempt] p == Prepared(r, h) IN
     /\ r.status = "ACTIVE" /\ r.tab = h.tab
     /\ p.seq >= 1
     /\ stored' = Put(h.attempt, p)
     /\ sessions' = Evicted(Purged) \cup {Session(p, h)}
  /\ reviews' = reviews + 1
  /\ Ended(h)
  /\ HandlerStep

\* The panel draws one saveId for each review, so the review's number stands
\* for both. A review may be saved more than once: a second press, or a retry
\* after the panel's timeout.
Save(v, consent) ==
  /\ Free /\ v \in Purged
  /\ v.attempt \in DOMAIN stored => stored[v.attempt].conf = None
  /\ active = v.tab /\ Shown(v.tab) /\ page[v.tab].url = v.url
  /\ handlers' = handlers \cup
       {[pc |-> "verify", session |-> v, consent |-> consent, at |-> clock]}
  /\ sessions' = Purged
  /\ UNCHANGED <<stored, reviews>> /\ HandlerStep

\* READ_PAGE_CONTEXT: the reviewed document is still there; then the consent
\* to a change of origin.
Verifies(v) == page[v.tab].url = v.url /\ page[v.tab].doc = v.doc
VerifyPage(h) ==
  /\ h.pc = "verify"
  /\ Shown(h.session.tab) /\ Verifies(h.session)
  /\ h.session.moved => h.consent
  /\ Instead(h, [pc |-> "confirm", session |-> h.session, at |-> h.at])
  /\ UNCHANGED <<stored, reviews, sessions>> /\ HandlerStep

\* The queued part: nothing happened to the context since the review.
StillReviewedUnsequenced(r, v, at) ==   \* broken: the sequence is not compared
  r.status = "ACTIVE" /\ r.tab = v.tab /\ r.url = v.url /\ ~Expired(r, at)
StillReviewed(r, v, at) ==
  r.status = "ACTIVE" /\ r.tab = v.tab /\ r.seq = v.seq /\ r.url = v.url /\ ~Expired(r, at)
\* parseSiteConfirmationEvidence of the completed receipt.
ValidEvidence(r, v, at) ==
  /\ r.seq >= 1 /\ v.url = r.url /\ v.moved = (Origin[v.url] # r.origin)
  /\ at >= r.seen
StoreConfirmation(h) ==
  /\ h.pc = "confirm" /\ h.session.attempt \in DOMAIN stored
  /\ LET v == h.session r == stored[v.attempt] IN
     /\ \/ r.conf = v /\ UNCHANGED stored   \* deduplicated
        \/ /\ r.conf = None /\ StillReviewed(r, v, h.at) /\ ValidEvidence(r, v, h.at)
           /\ stored' = Put(v.attempt, [r EXCEPT !.status = "COMPLETED", !.conf = v, !.savedAt = h.at])
     /\ sessions' = sessions \ {v}
  /\ Ended(h)
  /\ UNCHANGED reviews /\ HandlerStep

\* Any check of a handler may fail, and so may a call it awaits.
Abort(h) == Ended(h) /\ UNCHANGED <<stored, reviews, sessions>> /\ HandlerStep

\* cancelSiteConfirmationReview, and storeReviewSession's timer.
Cancel(v) ==
  /\ v \in sessions
  /\ sessions' = sessions \ {v}
  /\ UNCHANGED <<stored, reviews, handlers>> /\ HandlerStep

-----------------------------------------------------------------------------
Tick ==
  /\ clock < MaxTime
  /\ clock' = clock + 1
  /\ UNCHANGED <<browserVars, workerVars, net, closing, attempts>>

\* The browser stops the worker: sessions and handlers are gone, and what it
\* was working on is lost.
Crash ==
  /\ Crashes
  /\ <<handlers, sessions, net, closing>> # <<{}, {}, {}, {}>>
  /\ sessions' = {} /\ handlers' = {} /\ net' = {} /\ closing' = {}
  /\ UNCHANGED <<browserVars, stored, reviews, attempts, clock>>

Pages ==
  \/ \E t \in Tabs :
       \/ Submit(t) \/ Resubmit(t) \/ Mutate(t) \/ DomTimer(t) \/ CloseTab(t)
       \/ \E u \in Urls : Navigate(t, u) \/ History(t, u)
  \/ \E t \in Tabs \cup {Elsewhere} : Activate(t)
  \/ \E w \in waiting : Send(w)
Writes ==
  \/ \E m \in net : StoreCapture(m) \/ Authorize(m) \/ StoreObservation(m) \/ Lose(m)
  \/ \E t \in Tabs : ExpireClosed(t)
  \/ \E a \in DOMAIN stored : Delete(a)
  \/ Snapshot
Reviewing ==
  \/ Begin
  \/ \E v \in sessions : Cancel(v) \/ \E consent \in BOOLEAN : Save(v, consent)
  \/ \E h \in handlers :
       ReadCandidate(h) \/ Prepare(h) \/ VerifyPage(h) \/ StoreConfirmation(h) \/ Abort(h)

\* Every tab shows a page; one of them is active.
Init ==
  /\ page \in [Tabs -> [open : {TRUE}, url : Urls, doc : {0}]]
  /\ active \in Tabs
  /\ script = [t \in Tabs |-> NoScript]
  /\ waiting = {} /\ net = {} /\ closing = {}
  /\ stored = [a \in {} |-> None] /\ attempts = 0 /\ reviews = 0
  /\ sessions = {} /\ handlers = {}
  /\ changes = 0 /\ clock = 0
Next == Pages \/ Writes \/ Reviewing \/ Tick \/ Crash
Spec == Init /\ [][Next]_vars

-----------------------------------------------------------------------------
\* parseStoredAttemptReceipt, which every load and save applies.
ValidReceipt(r) ==
  /\ r.tab \in Tabs /\ r.status \in Statuses
  /\ r.url \in Urls /\ r.doc \in 0..changes /\ r.seq \in Nat
  /\ r.at \in 0..clock /\ r.seen \in r.at..clock
  /\ (r.conf # None) = (r.status = "COMPLETED")
  /\ r.conf # None => ValidEvidence(r, r.conf, r.savedAt)
TypeOK ==
  /\ DOMAIN stored \subseteq 1..attempts /\ \A a \in DOMAIN stored : ValidReceipt(stored[a])
  /\ Cardinality(sessions) <= MaxSessions
  /\ \A v \in sessions : v.review \in 1..reviews /\ v.tab \in Tabs
  /\ active \in Tabs \cup {Elsewhere} /\ closing \subseteq Tabs

(* A tab has at most one open context, and it is that of the attempt       *)
(* stored last: evidence of the tab can enter no other receipt             *)
(* (appendAttemptReceipt).                                                 *)
OneActivePerTab ==
  \A a, b \in DOMAIN stored :
    stored[a].tab = stored[b].tab /\ stored[b].status = "ACTIVE" /\ a # b =>
      stored[a].nth < stored[b].nth

(* A confirmation is the one a user reviewed, and nothing else: the        *)
(* receipt, tab, document, URL and navigation sequence the review showed   *)
(* are those of the completed context, saved before the context and the    *)
(* review ran out, whatever the page, other messages and other panels did  *)
(* between the handlers' awaits (saveSiteConfirmation).                    *)
ConfirmedWhatWasReviewed ==
  \A a \in DOMAIN stored : stored[a].conf # None =>
    LET r == stored[a] v == stored[a].conf IN
    /\ r.status = "COMPLETED"
    /\ v.attempt = a /\ v.tab = r.tab
    /\ v.doc = r.doc /\ v.url = r.url /\ v.seq = r.seq /\ r.seq > 0
    /\ r.savedAt < v.expiresAt /\ ~Expired(r, r.savedAt)

(* A context only moves forward: its sequence and its times never go back, *)
(* no observation reaches it once it is closed, and a closed context never *)
(* opens again nor changes its reason (expireConfirmationContext,          *)
(* recordNavigationObservation, appendSiteConfirmation).                   *)
ContextsMoveForward ==
  [][\A a \in DOMAIN stored \cap DOMAIN stored' :
       LET r == stored[a] s == stored'[a] IN
       /\ s.seq >= r.seq /\ s.seen >= r.seen
       /\ r.status # "ACTIVE" => s = r
       /\ s.seq # r.seq => s.status = "ACTIVE"]_stored

(* Closing a tab expires its context (EXTENSION.md): when the worker has   *)
(* nothing left to do and never stopped, no open context belongs to a      *)
(* closed tab. False as the code stands: MCConfirmationClose.cfg.          *)
ClosedTabsExpire ==
  net = {} /\ closing = {} =>
    \A a \in DOMAIN stored : stored[a].status = "ACTIVE" => page[stored[a].tab].open
=============================================================================
