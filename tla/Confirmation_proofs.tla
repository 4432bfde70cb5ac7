-------------------------- MODULE Confirmation_proofs --------------------------
(***************************************************************************)
(* The safety of Confirmation for any tabs, URLs, windows and bounds.      *)
(*                                                                         *)
(* All writes but three let each context only evolve (Evolves). A review   *)
(* that is open, or being saved, is of a receipt that is still as the      *)
(* review shows it or has a higher sequence, or of one that is gone for    *)
(* good (Live); so an equal sequence means an unchanged context.           *)
(***************************************************************************)
EXTENDS Confirmation, FiniteSetTheorems, WellFoundedInduction, TLAPS

Flag == {TRUE, FALSE}
Requester == [attempt : Nat, kind : {"SUBMIT"}, tab : Tabs, doc : Nat, url : Urls, at : Nat, checked : {FALSE}]
Observer == [attempt : Nat, kind : {"DOCUMENT", "CHANGE"}, tab : Tabs, doc : Nat, url : Urls, at : Nat, checked : Flag]
Review ==
  [review : Nat, attempt : Nat, tab : Tabs, doc : Nat, url : Urls, seq : Nat, moved : Flag, expiresAt : Nat]
Receipt ==
  [nth : Nat, tab : Tabs, at : Nat, origin : {Origin[u] : u \in Urls},
   status : {"ACTIVE", "COMPLETED", "EXPIRED", "SUPERSEDED"},
   doc : Nat, url : Urls, seq : Nat, seen : Nat, conf : Review \cup {None}, savedAt : Nat]
Selecting == [pc : {"select"}, attempt : Nat, tab : Tabs, url : Urls]
Preparing == [pc : {"prepare"}, attempt : Nat, tab : Tabs, url : Urls, doc : Nat]
Verifying == [pc : {"verify"}, session : Review, consent : Flag, at : Nat]
Confirming == [pc : {"confirm"}, session : Review, at : Nat]

Timely(x) == x.doc <= changes /\ x.at <= clock
\* The capture requests that may still be sent or processed.
Made == (net \cup {script[t].last : t \in Tabs}) \cap Requester

CountsOK == changes \in Nat /\ clock \in Nat /\ attempts \in Nat /\ reviews \in Nat
PagesOK ==
  /\ page \in [Tabs -> [open : Flag, url : Urls, doc : Nat]]
  /\ \A t \in Tabs : page[t].doc <= changes
  /\ active \in Tabs \cup {Elsewhere} /\ closing \subseteq Tabs
  /\ script \in [Tabs -> [last : Requester \cup {None}, dom : Flag, timer : Flag]]
  /\ waiting \subseteq [kind : {"DOCUMENT", "CHANGE"}, tab : Tabs, doc : Nat, after : Requester \cup {None}]
  /\ \A w \in waiting : w.doc <= changes
NetOK ==
  /\ net \subseteq Requester \cup Observer
  /\ \A m \in net : Timely(m)
  /\ \A m \in Made : Timely(m) /\ m.attempt \in 1..attempts
  /\ \A m, n \in Made : m.attempt = n.attempt => m.at = n.at
Evidence(r) == ValidEvidence(r, r.conf, r.savedAt) /\ r.status = "COMPLETED" /\ r.conf \in Review
Good(r) ==
  /\ r \in Receipt
  /\ r.doc <= changes /\ r.at <= r.seen /\ r.seen <= clock
  /\ IF r.conf = None THEN r.status # "COMPLETED" ELSE Evidence(r)
StoredOK ==
  /\ DOMAIN stored \subseteq 1..attempts
  /\ \A a \in DOMAIN stored : Good(stored[a])
  /\ \A m \in Made : m.attempt \in DOMAIN stored => stored[m.attempt].at = m.at
  /\ \E n \in Nat : \A a \in DOMAIN stored : stored[a].nth <= n
\* What a handler of the panel's requests holds.
Bounded(h) ==
  /\ h.pc \in {"select", "prepare"} => h.attempt \in 1..attempts
  /\ h.pc = "prepare" => h.doc <= changes
  /\ h.pc \in {"verify", "confirm"} => h.at <= clock
WorkerOK ==
  /\ sessions \subseteq Review /\ \A v \in sessions : v.review \in 1..reviews
  /\ IsFiniteSet(sessions) /\ Cardinality(sessions) <= MaxSessions
  /\ handlers \subseteq Selecting \cup Preparing \cup Verifying \cup Confirming
  /\ \A h \in handlers : Bounded(h)
Typed == CountsOK /\ PagesOK /\ NetOK /\ StoredOK /\ WorkerOK

-----------------------------------------------------------------------------
\* Places in the index.

(* A set of numbers below a bound has a greatest one.                       *)
LEMMA Greatest ==
  ASSUME NEW S \in SUBSET Nat, S # {}, NEW n \in Nat, \A x \in S : x <= n
  PROVE  \E x \in S : \A y \in S : y <= x
<1> DEFINE T == {n - x : x \in S}
<1>1. T \subseteq Nat /\ T # {}
  <2>1. \A x \in S : n - x \in Nat OBVIOUS
  <2>2. T \subseteq Nat BY <2>1
  <2>3. PICK x \in S : TRUE OBVIOUS
  <2>4. n - x \in T OBVIOUS
  <2>5. QED BY <2>2, <2>4
<1>2. PICK k \in T : \A y \in T : ~(<<y, k>> \in OpToRel(<, Nat))
  <2> HIDE DEF T
  <2> QED BY <1>1, NatLessThanWellFounded, WFMin, Zenon
<1>3. PICK x \in S : k = n - x OBVIOUS
<1>4. ASSUME NEW y \in S PROVE y <= x
  <2>1. n - y \in T /\ n - y \in Nat /\ k \in Nat BY <1>1
  <2>2. ~(n - y < k)
    <3> DEFINE j == n - y
    <3>1. j \in T /\ j \in Nat BY <2>1
    <3> HIDE DEF T, j
    <3>2. ~(<<j, k>> \in OpToRel(<, Nat)) BY <1>2, <3>1
    <3>3. ~(j < k) BY <2>1, <3>1, <3>2 DEF OpToRel
    <3>4. QED BY <3>3 DEF j
  <2>3. QED BY <1>3, <2>1, <2>2
<1>5. QED BY <1>4

(* The index is finite: one of the receipts is the front one.               *)
LEMMA Front ==
  ASSUME StoredOK, NEW A \in SUBSET DOMAIN stored, A # {}
  PROVE  Foremost(A) \in A /\ \A b \in A : stored[b].nth <= stored[Foremost(A)].nth
<1> DEFINE S == {stored[a].nth : a \in A}
<1>1. PICK n \in Nat : \A a \in DOMAIN stored : stored[a].nth <= n BY DEF StoredOK
<1>2. S \subseteq Nat /\ S # {} BY DEF StoredOK, Good, Receipt
<1>3. \A x \in S : x <= n BY <1>1
<1>4. \E x \in S : \A y \in S : y <= x
  <2> HIDE DEF S
  <2> QED BY <1>2, <1>3, Greatest
<1>5. \E a \in A : \A b \in A : stored[b].nth <= stored[a].nth BY <1>4
<1>6. QED BY <1>5 DEF Foremost

(* A new receipt goes before all others.                                    *)
LEMMA NewPlace ==
  ASSUME StoredOK
  PROVE  NextPlace \in Nat /\ \A a \in DOMAIN stored : stored[a].nth < NextPlace
<1>1. CASE DOMAIN stored = {} BY <1>1 DEF NextPlace
<1>2. CASE DOMAIN stored # {}
  <2> DEFINE f == Foremost(DOMAIN stored)
  <2>1. f \in DOMAIN stored /\ \A b \in DOMAIN stored : stored[b].nth <= stored[f].nth
    BY <1>2, Front
  <2>2. \A a \in DOMAIN stored : stored[a].nth \in Nat BY DEF StoredOK, Good, Receipt
  <2>3. NextPlace = 1 + stored[f].nth BY <1>2 DEF NextPlace
  <2> HIDE DEF f
  <2>4. QED BY <2>1, <2>2, <2>3
<1>3. QED BY <1>1, <1>2

-----------------------------------------------------------------------------
\* What a write may do to a context.

Evolves(r, s) ==
  /\ s.nth = r.nth /\ s.tab = r.tab /\ s.at = r.at /\ s.origin = r.origin
  /\ s.conf = r.conf
  /\ s.seq >= r.seq /\ s.seen >= r.seen
  /\ s.seq = r.seq => s.doc = r.doc /\ s.url = r.url
  /\ s.seq # r.seq => s.status = "ACTIVE"
  /\ r.status # "ACTIVE" => s = r
  /\ s.status # "COMPLETED" \/ s = r

(* A context left alone.                                                    *)
LEMMA StaysGood == ASSUME NEW r, Good(r) PROVE Evolves(r, r)
BY DEF Good, Receipt, Evolves

(* Closing a context for whichever reason (expireConfirmationContext,       *)
(* appendAttemptReceipt).                                                   *)
LEMMA ClosedGood ==
  ASSUME NEW r, Good(r), r.status = "ACTIVE", NEW c \in {"EXPIRED", "SUPERSEDED"}
  PROVE  Good([r EXCEPT !.status = c]) /\ Evolves(r, [r EXCEPT !.status = c])
<1> DEFINE s == [r EXCEPT !.status = c]
<1>1. r \in Receipt /\ r.conf = None BY DEF Good, Evidence
<1>2. /\ s \in Receipt /\ s.status = c /\ s.conf = r.conf /\ s.seq = r.seq /\ s.seen = r.seen
      /\ s.doc = r.doc /\ s.url = r.url /\ s.nth = r.nth /\ s.tab = r.tab /\ s.at = r.at
      /\ s.origin = r.origin
  BY <1>1 DEF Receipt
<1> HIDE DEF s
<1>3. Good(s) BY <1>1, <1>2 DEF Good
<1>4. Evolves(r, s) BY <1>1, <1>2 DEF Evolves, Receipt
<1>5. QED BY <1>3, <1>4 DEF s

LEMMA ExpireGood ==
  ASSUME NEW r, Good(r) PROVE Good(Expire(r)) /\ Evolves(r, Expire(r))
BY ClosedGood, StaysGood DEF Expire

(* A new observation (recordNavigationObservation).                         *)
LEMMA ObservedGood ==
  ASSUME CountsOK, NEW r, Good(r), r.status = "ACTIVE",
         NEW o, o.doc \in Nat, o.doc <= changes, o.url \in Urls, o.at \in Nat, o.at <= clock, r.seen <= o.at
  PROVE  /\ Good(Observed(r, o)) /\ Evolves(r, Observed(r, o))
         /\ Observed(r, o).doc = o.doc /\ Observed(r, o).url = o.url
         /\ Observed(r, o).seq = r.seq + 1 /\ Observed(r, o).status = "ACTIVE"
<1> DEFINE s == Observed(r, o)
<1>1. r \in Receipt /\ r.conf = None /\ r.at <= r.seen BY DEF Good, Evidence
<1>2. r.seq \in Nat /\ r.seen \in Nat /\ r.at \in Nat BY <1>1 DEF Receipt
<1>3. /\ s \in Receipt /\ s.status = r.status /\ s.conf = r.conf /\ s.seq = r.seq + 1 /\ s.seen = o.at
      /\ s.doc = o.doc /\ s.url = o.url /\ s.nth = r.nth /\ s.tab = r.tab /\ s.at = r.at
      /\ s.origin = r.origin
  <2>1. r.seq + 1 \in Nat BY <1>2
  <2>2. s = [r EXCEPT !.doc = o.doc, !.url = o.url, !.seq = r.seq + 1, !.seen = o.at] BY DEF Observed
  <2>3. QED BY <1>1, <2>1, <2>2 DEF Receipt
<1> HIDE DEF s
<1>4. Good(s)
  <2>1. s.at <= s.seen /\ s.seen <= clock /\ s.doc <= changes BY <1>1, <1>2, <1>3
  <2>2. s.conf = None /\ s.status # "COMPLETED" BY <1>1, <1>3
  <2>3. QED BY <1>3, <2>1, <2>2 DEF Good
<1>5. Evolves(r, s) BY <1>1, <1>2, <1>3 DEF Evolves
<1>6. QED BY <1>3, <1>4, <1>5 DEF s

(* An observation that came in (handlePageContextObservation).              *)
LEMMA RecordedGood ==
  ASSUME CountsOK, NEW r, Good(r), r.status = "ACTIVE",
         NEW o \in Observer, Timely(o)
  PROVE  Good(Recorded(r, o)) /\ Evolves(r, Recorded(r, o))
<1>1. o.doc \in Nat /\ o.url \in Urls /\ o.at \in Nat /\ o.doc <= changes /\ o.at <= clock
  BY DEF Observer, Timely
<1>2. CASE Expired(r, o.at) BY <1>2, ExpireGood DEF Recorded
<1>3. CASE ~Expired(r, o.at) /\ (SameDocument(r, o) \/ ~InOrder(r, o))
  BY <1>3, StaysGood DEF Recorded
<1>4. CASE ~Expired(r, o.at) /\ ~SameDocument(r, o) /\ InOrder(r, o)
  <2>1. r.seen <= o.at BY <1>1, <1>4 DEF InOrder, Good, Receipt
  <2>2. QED BY <1>1, <1>4, <2>1, ObservedGood DEF Recorded
<1>5. QED BY <1>2, <1>3, <1>4

(* The URL the panel found (reconcileConfirmationContextForSite).           *)
LEMMA ReconciledGood ==
  ASSUME CountsOK, PagesOK, active \in Tabs, NEW r, Good(r), r.status = "ACTIVE"
  PROVE  Good(Reconciled(r)) /\ Evolves(r, Reconciled(r))
<1> DEFINE o == [doc |-> r.doc, url |-> page[active].url, at |-> clock]
<1>1. r.doc \in Nat /\ r.doc <= changes /\ r.seen <= clock BY DEF Good, Receipt
<1>2. page[active].url \in Urls BY DEF PagesOK
<1>3. CASE Expired(r, clock) BY <1>3, ExpireGood DEF Reconciled
<1>4. CASE ~Expired(r, clock) /\ r.url = page[active].url BY <1>4, StaysGood DEF Reconciled
<1>5. CASE ~Expired(r, clock) /\ r.url # page[active].url
  <2>1. o.doc = r.doc /\ o.url = page[active].url /\ o.at = clock OBVIOUS
  <2>2. Reconciled(r) = Observed(r, o) BY <1>5 DEF Reconciled
  <2> HIDE DEF o
  <2>3. Good(Observed(r, o)) /\ Evolves(r, Observed(r, o))
    BY <1>1, <1>2, <2>1, ObservedGood DEF CountsOK
  <2>4. QED BY <2>2, <2>3
<1>6. QED BY <1>3, <1>4, <1>5

(* What the panel read (prepareSiteConfirmationReview).                     *)
LEMMA PreparedGood ==
  ASSUME CountsOK, NEW r, Good(r), r.status = "ACTIVE",
         NEW h, h.doc \in Nat, h.doc <= changes, h.url \in Urls
  PROVE  /\ Good(Prepared(r, h)) /\ Evolves(r, Prepared(r, h))
         /\ Prepared(r, h).doc = h.doc /\ Prepared(r, h).url = h.url
         /\ Prepared(r, h).status = "ACTIVE"
<1> DEFINE o == [doc |-> h.doc, url |-> h.url, at |-> clock]
<1>1. CASE r.doc = h.doc /\ r.url = h.url BY <1>1, StaysGood DEF Prepared
<1>2. CASE ~(r.doc = h.doc /\ r.url = h.url)
  <2>1. o.doc = h.doc /\ o.url = h.url /\ o.at = clock OBVIOUS
  <2>2. Prepared(r, h) = Observed(r, o) BY <1>2 DEF Prepared
  <2>3. r.seen <= clock BY DEF Good
  <2> HIDE DEF o
  <2>4. QED BY <2>1, <2>2, <2>3, ObservedGood DEF CountsOK
<1>3. QED BY <1>1, <1>2

-----------------------------------------------------------------------------
\* The writes.

\* Every context stays and evolves; so it is in all steps but three.
Rewrites ==
  /\ DOMAIN stored' = DOMAIN stored
  /\ \A a \in DOMAIN stored : Good(stored'[a]) /\ Evolves(stored[a], stored'[a])

(* Steps that leave the index alone, or as it was.                          *)
LEMMA SameRewrites == ASSUME StoredOK, stored' = stored PROVE Rewrites
BY StaysGood DEF Rewrites, StoredOK

LEMMA ObservationRewrites ==
  ASSUME Typed, NEW m \in net, StoreObservation(m) PROVE Rewrites
<1>1. m \in Observer /\ Timely(m)
  BY DEF StoreObservation, Typed, NetOK, Requester, Observer
<1>2. stored' = [a \in DOMAIN stored |-> IF a \in ActiveIn(m.tab) THEN Recorded(stored[a], m) ELSE stored[a]]
  BY DEF StoreObservation
<1>3. ASSUME NEW a \in DOMAIN stored
      PROVE  Good(stored'[a]) /\ Evolves(stored[a], stored'[a])
  <2>1. Good(stored[a]) BY DEF Typed, StoredOK
  <2>2. CASE a \in ActiveIn(m.tab)
    <3>1. stored'[a] = Recorded(stored[a], m) /\ stored[a].status = "ACTIVE" BY <1>2, <2>2 DEF ActiveIn
    <3>2. QED BY <1>1, <2>1, <3>1, RecordedGood DEF Typed
  <2>3. CASE a \notin ActiveIn(m.tab) BY <1>2, <2>1, <2>3, StaysGood
  <2>4. QED BY <2>2, <2>3
<1>4. QED BY <1>2, <1>3 DEF Rewrites

LEMMA CloseRewrites ==
  ASSUME Typed, NEW t \in Tabs, ExpireClosed(t) PROVE Rewrites
<1>1. stored' = [a \in DOMAIN stored |-> IF stored[a].tab = t THEN Expire(stored[a]) ELSE stored[a]]
  BY DEF ExpireClosed
<1>2. \A a \in DOMAIN stored : Good(stored[a]) BY DEF Typed, StoredOK
<1>3. QED BY <1>1, <1>2, ExpireGood, StaysGood DEF Rewrites

(* buildSnapshot, alone or at the beginning of a review.                    *)
LEMMA SnapshotRewrites ==
  ASSUME Typed, stored' = InSnapshot PROVE Rewrites
<1>1. ASSUME NEW a \in DOMAIN stored
      PROVE  Good(stored'[a]) /\ Evolves(stored[a], stored'[a])
  <2>1. Good(stored[a]) BY DEF Typed, StoredOK
  <2>2. CASE Shown(active) /\ a \in ActiveIn(active)
    <3>1. stored'[a] = Reconciled(stored[a]) /\ stored[a].status = "ACTIVE" /\ active \in Tabs
      BY <2>2 DEF ActiveIn, InSnapshot, Shown
    <3>2. QED BY <2>1, <3>1, ReconciledGood DEF Typed
  <2>3. CASE ~(Shown(active) /\ a \in ActiveIn(active)) BY <2>1, <2>3, StaysGood DEF InSnapshot
  <2>4. QED BY <2>2, <2>3
<1>2. QED BY <1>1 DEF Rewrites, InSnapshot

LEMMA PrepareRewrites ==
  ASSUME Typed, NEW h \in handlers, Prepare(h) PROVE Rewrites
<1> DEFINE r == stored[h.attempt]
<1>1. h.doc \in Nat /\ h.doc <= changes /\ h.url \in Urls
  BY DEF Prepare, Typed, WorkerOK, Bounded, Selecting, Preparing, Verifying, Confirming
<1>2. h.attempt \in DOMAIN stored /\ r.status = "ACTIVE" /\ stored' = [stored EXCEPT ![h.attempt] = Prepared(r, h)]
  BY DEF Prepare, Put
<1>3. \A a \in DOMAIN stored : Good(stored[a]) BY DEF Typed, StoredOK
<1>4. Good(Prepared(r, h)) /\ Evolves(r, Prepared(r, h)) BY <1>1, <1>2, <1>3, PreparedGood DEF Typed
<1>5. QED BY <1>2, <1>3, <1>4, StaysGood DEF Rewrites

(* No step changes the index in another way.                                *)
LEMMA StoredChanges ==
  ASSUME Typed, [Next]_vars
  PROVE  \/ Rewrites
         \/ \E m \in net : StoreCapture(m)
         \/ \E a \in DOMAIN stored : Delete(a)
         \/ \E h \in handlers : StoreConfirmation(h)
<1> USE DEF Typed
<1>1. ASSUME stored' = stored PROVE Rewrites BY <1>1, SameRewrites
<1>2. CASE UNCHANGED vars BY <1>1, <1>2 DEF vars, workerVars
<1>3. CASE Pages
  BY <1>1, <1>3 DEF Pages, PageStep, Submit, Resubmit, Mutate, DomTimer, CloseTab, Navigate, History, Activate, Send, workerVars
<1>4. CASE Writes
  <2>1. ASSUME NEW m \in net, Authorize(m) \/ Lose(m) PROVE Rewrites BY <1>1, <2>1 DEF Authorize, Lose
  <2>2. ASSUME Snapshot PROVE Rewrites BY <2>2, SnapshotRewrites DEF Snapshot
  <2>3. QED BY <1>4, <2>1, <2>2, ObservationRewrites, CloseRewrites DEF Writes
<1>5. CASE Reviewing
  <2>1. ASSUME Begin PROVE Rewrites BY <2>1, SnapshotRewrites DEF Begin
  <2>2. ASSUME NEW v \in sessions, Cancel(v) \/ \E consent \in BOOLEAN : Save(v, consent) PROVE Rewrites
    BY <1>1, <2>2 DEF Cancel, Save
  <2>3. ASSUME NEW h \in handlers, ReadCandidate(h) \/ VerifyPage(h) \/ Abort(h) PROVE Rewrites
    BY <1>1, <2>3 DEF ReadCandidate, VerifyPage, Abort
  <2>4. QED BY <1>5, <2>1, <2>2, <2>3, PrepareRewrites DEF Reviewing
<1>6. CASE Tick \/ Crash BY <1>1, <1>6 DEF Tick, Crash, workerVars
<1>7. QED BY <1>2, <1>3, <1>4, <1>5, <1>6 DEF Next

-----------------------------------------------------------------------------
\* The three other writes.

(* A capture's receipt is new, and the open one of its tab is superseded    *)
(* (appendAttemptReceipt).                                                  *)
LEMMA CaptureStored ==
  ASSUME Typed, NEW m \in net, StoreCapture(m)
  PROVE  /\ m \in Made
         /\ stored' # stored =>
              /\ m.attempt \in 1..attempts \ DOMAIN stored
              /\ DOMAIN stored' = DOMAIN stored \cup {m.attempt}
              /\ stored'[m.attempt] = NewReceipt(m)
              /\ \A a \in DOMAIN stored :
                   /\ Good(stored'[a]) /\ Evolves(stored[a], stored'[a])
                   /\ stored'[a].status = "ACTIVE" => stored[a].tab # m.tab
<1>1. m \in Made BY DEF StoreCapture, Typed, NetOK, Made, Requester, Observer
<1>2. CASE m.attempt \in DOMAIN stored BY <1>1, <1>2 DEF StoreCapture
<1>3. CASE m.attempt \notin DOMAIN stored
  <2>1. /\ DOMAIN stored' = DOMAIN stored \cup {m.attempt}
        /\ stored'[m.attempt] = NewReceipt(m)
        /\ \A a \in DOMAIN stored :
             stored'[a] = IF Supersedes(stored[a], m) THEN [stored[a] EXCEPT !.status = "SUPERSEDED"] ELSE stored[a]
    BY <1>3 DEF StoreCapture, Appended
  <2>2. ASSUME NEW a \in DOMAIN stored
        PROVE  /\ Good(stored'[a]) /\ Evolves(stored[a], stored'[a])
               /\ stored'[a].status = "ACTIVE" => stored[a].tab # m.tab
    <3>1. Good(stored[a]) BY DEF Typed, StoredOK
    <3>2. CASE Supersedes(stored[a], m)
      <4>1. stored[a].status = "ACTIVE" /\ stored'[a] = [stored[a] EXCEPT !.status = "SUPERSEDED"]
        BY <2>1, <3>2 DEF Supersedes
      <4>2. stored'[a].status = "SUPERSEDED" BY <3>1, <4>1 DEF Good, Receipt
      <4>3. QED BY <3>1, <4>1, <4>2, ClosedGood
    <3>3. CASE ~Supersedes(stored[a], m)
      <4>1. stored'[a] = stored[a] BY <2>1, <3>3
      <4>2. QED BY <3>1, <3>3, <4>1, StaysGood DEF Supersedes
    <3>4. QED BY <3>2, <3>3
  <2>3. m.attempt \in 1..attempts BY <1>1 DEF Typed, NetOK
  <2>4. QED BY <1>1, <1>3, <2>1, <2>2, <2>3
<1>4. QED BY <1>2, <1>3

LEMMA NewIsGood ==
  ASSUME Typed, NEW m \in Made
  PROVE  /\ Good(NewReceipt(m)) /\ NewReceipt(m).at = m.at /\ NewReceipt(m).tab = m.tab
         /\ NewReceipt(m).nth = NextPlace /\ NewReceipt(m).conf = None
<1> DEFINE s == NewReceipt(m)
<1>1. m \in Requester /\ Timely(m) BY DEF Made, Typed, NetOK
<1>2. m.tab \in Tabs /\ m.at \in Nat /\ m.url \in Urls /\ m.doc \in Nat /\ NextPlace \in Nat
  BY <1>1, NewPlace DEF Requester, Typed
<1>3. /\ s \in Receipt /\ s.at = m.at /\ s.tab = m.tab /\ s.nth = NextPlace /\ s.conf = None
      /\ s.seen = m.at /\ s.doc = m.doc /\ s.status = "ACTIVE"
  BY <1>2 DEF NewReceipt, Receipt
<1> HIDE DEF s
<1>4. Good(s) BY <1>1, <1>2, <1>3 DEF Good, Timely
<1>5. QED BY <1>3, <1>4 DEF s

(* A review is never the placeholder for no review.                         *)
LEMMA ReviewIsSome == ASSUME NEW v \in Review PROVE v # None
<1>1. DOMAIN v # DOMAIN None BY DEF Review, None
<1>2. QED BY <1>1

(* A confirmation completes its context, which was open, at the sequence    *)
(* the review has; it changes no other (appendSiteConfirmation).            *)
LEMMA ConfirmationStored ==
  ASSUME Typed, NEW h \in handlers, StoreConfirmation(h), stored' # stored
  PROVE  LET v == h.session r == stored[v.attempt] s == stored'[v.attempt] IN
         /\ h.pc = "confirm" /\ v.attempt \in DOMAIN stored /\ DOMAIN stored' = DOMAIN stored
         /\ \A a \in DOMAIN stored : a # v.attempt => stored'[a] = stored[a]
         /\ r.status = "ACTIVE" /\ r.conf = None
         /\ r.tab = v.tab /\ r.seq = v.seq /\ r.seq >= 1 /\ r.url = v.url /\ ~Expired(r, h.at)
         /\ s = [r EXCEPT !.status = "COMPLETED", !.conf = v, !.savedAt = h.at]
         /\ /\ s.status = "COMPLETED" /\ s.conf = v /\ s.savedAt = h.at
            /\ s.nth = r.nth /\ s.tab = r.tab /\ s.at = r.at /\ s.seq = r.seq /\ s.seen = r.seen
            /\ s.doc = r.doc /\ s.url = r.url /\ s.origin = r.origin
         /\ Good(s)
<1> DEFINE v == h.session r == stored[v.attempt] s == stored'[v.attempt]
<1>1. /\ h.pc = "confirm" /\ v.attempt \in DOMAIN stored
      /\ r.conf = None /\ StillReviewed(r, v, h.at) /\ ValidEvidence(r, v, h.at)
      /\ stored' = [stored EXCEPT ![v.attempt] = [r EXCEPT !.status = "COMPLETED", !.conf = v, !.savedAt = h.at]]
  BY DEF StoreConfirmation, Put
<1>2. v \in Review /\ h.at \in Nat
  BY <1>1 DEF Typed, WorkerOK, Selecting, Preparing, Verifying, Confirming
<1>3. Good(r) /\ r \in Receipt BY <1>1 DEF Typed, StoredOK, Good
<1>4. s = [r EXCEPT !.status = "COMPLETED", !.conf = v, !.savedAt = h.at]
      /\ DOMAIN stored' = DOMAIN stored
      /\ \A a \in DOMAIN stored : a # v.attempt => stored'[a] = stored[a]
  BY <1>1
<1> HIDE DEF v, r, s
<1>5. /\ s \in Receipt /\ s.status = "COMPLETED" /\ s.conf = v /\ s.savedAt = h.at
      /\ s.nth = r.nth /\ s.tab = r.tab /\ s.at = r.at /\ s.seq = r.seq /\ s.seen = r.seen
      /\ s.doc = r.doc /\ s.url = r.url /\ s.origin = r.origin
  BY <1>2, <1>3, <1>4 DEF Receipt
<1>6. ValidEvidence(s, v, h.at) BY <1>1, <1>5 DEF ValidEvidence
<1>7. Good(s) BY <1>2, <1>3, <1>5, <1>6, ReviewIsSome DEF Good, Evidence
<1>8. r.status = "ACTIVE" /\ r.tab = v.tab /\ r.seq = v.seq /\ r.url = v.url /\ ~Expired(r, h.at) /\ r.seq >= 1
  BY <1>1 DEF StillReviewed, ValidEvidence
<1>9. h.pc = "confirm" /\ v.attempt \in DOMAIN stored /\ r.conf = None BY <1>1
<1>10. QED BY <1>4, <1>5, <1>7, <1>8, <1>9 DEF v, r, s

-----------------------------------------------------------------------------
\* Types.

(* Histories and the clock only count up.                                   *)
LEMMA CountsKept ==
  ASSUME Typed, [Next]_vars
  PROVE  CountsOK' /\ changes <= changes' /\ clock <= clock' /\ attempts <= attempts' /\ reviews <= reviews'
<1> USE DEF Typed, CountsOK
<1>1. ASSUME changes' \in {changes, changes + 1}, clock' \in {clock, clock + 1},
             attempts' \in {attempts, attempts + 1}, reviews' \in {reviews, reviews + 1}
      PROVE  CountsOK' /\ changes <= changes' /\ clock <= clock' /\ attempts <= attempts' /\ reviews <= reviews'
  BY <1>1
<1>2. CASE UNCHANGED vars BY <1>1, <1>2 DEF vars, workerVars, browserVars
<1>3. CASE Pages
  BY <1>1, <1>3 DEF Pages, PageStep, Submit, Resubmit, Mutate, DomTimer, CloseTab, Navigate, History,
     Activate, Send, workerVars, browserVars, Change
<1>4. CASE Writes
  BY <1>1, <1>4 DEF Writes, WriteStep, StoreCapture, Authorize, StoreObservation, Lose, ExpireClosed, Delete,
     Snapshot, browserVars
<1>5. CASE Reviewing
  BY <1>1, <1>5 DEF Reviewing, HandlerStep, Begin, Cancel, Save, ReadCandidate, Prepare, VerifyPage,
     StoreConfirmation, Abort, browserVars
<1>6. CASE Tick \/ Crash BY <1>1, <1>6 DEF Tick, Crash, workerVars, browserVars
<1>7. QED BY <1>2, <1>3, <1>4, <1>5, <1>6 DEF Next

(* The worker's steps do not touch the pages.                               *)
LEMMA PagesSame ==
  ASSUME PagesOK, UNCHANGED browserVars, closing' \subseteq Tabs PROVE PagesOK'
BY DEF PagesOK, browserVars

(* A capture describes the page it is made in.                              *)
LEMMA CaptureTyped ==
  ASSUME CountsOK, PagesOK, NEW t \in Tabs
  PROVE  Capture(attempts + 1, t, page[t].doc, page[t].url, clock) \in Requester
BY DEF CountsOK, PagesOK, Capture, Requester

(* The content script's records are of the page it runs in.                 *)
LEMMA PagesKept == ASSUME Typed, [Next]_vars PROVE PagesOK'
<1> DEFINE Message == [kind : {"DOCUMENT", "CHANGE"}, tab : Tabs, doc : Nat, after : Requester \cup {None}]
           Script == [last : Requester \cup {None}, dom : Flag, timer : Flag]
<1>1. CountsOK /\ PagesOK /\ closing \subseteq Tabs BY DEF Typed, PagesOK
<1>2. /\ page \in [Tabs -> [open : Flag, url : Urls, doc : Nat]] /\ \A t \in Tabs : page[t].doc <= changes
      /\ active \in Tabs \cup {Elsewhere} /\ script \in [Tabs -> Script] /\ waiting \subseteq Message
      /\ \A w \in waiting : w.doc <= changes
  BY <1>1 DEF PagesOK
<1>3. CountsOK' /\ changes <= changes' /\ changes' \in Nat BY CountsKept DEF CountsOK
<1>4. NoScript \in Script BY DEF NoScript, Flag
<1>5. ASSUME NEW t \in Tabs, NEW k \in {"DOCUMENT", "CHANGE"}
      PROVE  Notice(t, k) \subseteq Message /\ \A w \in Notice(t, k) : w.doc <= changes
  <2>1. script[t].last \in Requester \cup {None} /\ page[t].doc \in Nat BY <1>2
  <2>2. [kind |-> k, tab |-> t, doc |-> page[t].doc, after |-> script[t].last] \in Message BY <2>1
  <2>3. QED BY <1>2, <2>2 DEF Notice
<1>6. ASSUME NEW t \in Tabs, Submit(t) PROVE PagesOK'
  <2> DEFINE m == Capture(attempts + 1, t, page[t].doc, page[t].url, clock)
  <2>1. m \in Requester BY <1>1, CaptureTyped
  <2>2. script' = [script EXCEPT ![t].last = m, ![t].dom = FALSE] BY <1>6 DEF Submit
  <2> HIDE DEF m
  <2>3. script' \in [Tabs -> Script]
    <3>1. DOMAIN script' = Tabs BY <1>2, <2>2
    <3>2. ASSUME NEW u \in Tabs PROVE script'[u] \in Script
      <4>1. script[u] \in Script BY <1>2
      <4>2. CASE u = t
        <5>1. script'[u] = [script[u] EXCEPT !.last = m, !.dom = FALSE] BY <1>2, <2>2, <4>2
        <5>2. QED BY <2>1, <4>1, <5>1 DEF Flag
      <4>3. CASE u # t BY <1>2, <2>2, <4>1, <4>3
      <4>4. QED BY <4>2, <4>3
    <3>3. script' = [u \in Tabs |-> script'[u]] BY <1>2, <2>2
    <3>4. QED BY <3>2, <3>3
  <2>4. QED BY <1>1, <1>6, <2>3 DEF PagesOK, Submit
<1>7. ASSUME NEW t \in Tabs, NEW u \in Urls, Navigate(t, u) PROVE PagesOK'
  <2>1. changes' \in Nat /\ page' = [page EXCEPT ![t].url = u, ![t].doc = changes']
        /\ script' = [script EXCEPT ![t] = NoScript] /\ active' = active /\ closing' = closing
        /\ waiting' = Others(t) \cup {[kind |-> "DOCUMENT", tab |-> t, doc |-> changes', after |-> None]}
    BY <1>3, <1>7 DEF Navigate, PageStep
  <2>2. script' \in [Tabs -> Script] BY <1>2, <1>4, <2>1
  <2>3. /\ page' = [s \in Tabs |-> page'[s]]
        /\ \A s \in Tabs : page'[s] \in [open : Flag, url : Urls, doc : Nat] /\ page'[s].doc <= changes'
    <3>1. page' = [s \in Tabs |-> page'[s]] BY <1>2, <2>1
    <3>2. ASSUME NEW s \in Tabs
          PROVE  page'[s] \in [open : Flag, url : Urls, doc : Nat] /\ page'[s].doc <= changes'
      <4>1. page[s] \in [open : Flag, url : Urls, doc : Nat] /\ page[s].doc <= changes' /\ page[s].doc \in Nat
        BY <1>1, <1>2, <1>3 DEF CountsOK
      <4>2. CASE s = t
        <5>1. page'[s] = [page[s] EXCEPT !.url = u, !.doc = changes'] BY <1>2, <2>1, <4>2
        <5>2. page'[s].doc = changes' /\ page'[s].url = u /\ page'[s].open = page[s].open
              /\ page'[s] = [open |-> page'[s].open, url |-> page'[s].url, doc |-> page'[s].doc]
          BY <4>1, <5>1
        <5>3. QED BY <2>1, <4>1, <5>2
      <4>3. CASE s # t BY <1>2, <2>1, <4>1, <4>3
      <4>4. QED BY <4>2, <4>3
    <3>3. QED BY <3>1, <3>2
  <2>4. waiting' \subseteq Message
    <3>1. [kind |-> "DOCUMENT", tab |-> t, doc |-> changes', after |-> None] \in Message BY <2>1
    <3>2. Others(t) \subseteq Message BY <1>2 DEF Others
    <3>3. QED BY <2>1, <3>1, <3>2
  <2>5. \A w \in waiting' : w.doc <= changes'
    <3>1. \A w \in waiting : w.doc <= changes' BY <1>1, <1>2, <1>3 DEF CountsOK
    <3>2. QED BY <1>3, <2>1, <3>1 DEF Others
  <2>6. QED BY <1>1, <1>2, <2>1, <2>2, <2>3, <2>4, <2>5 DEF PagesOK
<1>8. ASSUME NEW t \in Tabs, NEW u \in Urls, History(t, u) PROVE PagesOK'
  <2>1. page' = [page EXCEPT ![t].url = u] /\ script' = script /\ active' = active /\ closing' = closing
        /\ waiting' \in {waiting, Notice(t, "CHANGE")}
    BY <1>8 DEF History, PageStep
  <2>2. /\ page' = [s \in Tabs |-> page'[s]]
        /\ \A s \in Tabs : page'[s] \in [open : Flag, url : Urls, doc : Nat] /\ page'[s].doc = page[s].doc
    BY <1>2, <2>1
  <2>3. \A s \in Tabs : page'[s].doc <= changes' BY <1>1, <1>2, <1>3, <2>2 DEF CountsOK
  <2>4. waiting' \subseteq Message /\ \A w \in waiting' : w.doc <= changes BY <1>2, <1>5, <2>1
  <2>5. \A w \in waiting' : w.doc <= changes' BY <1>1, <1>3, <2>4 DEF CountsOK
  <2>6. QED BY <1>1, <1>2, <2>1, <2>2, <2>3, <2>4, <2>5 DEF PagesOK
<1>9. ASSUME NEW t \in Tabs, Mutate(t) PROVE PagesOK'
  <2>1. script' = [script EXCEPT ![t].dom = TRUE, ![t].timer = TRUE]
        /\ UNCHANGED <<page, active, waiting, closing>>
    BY <1>9 DEF Mutate, PageStep
  <2>2. script' = [u \in Tabs |-> script'[u]] /\ \A u \in Tabs : script'[u] \in Script BY <1>2, <2>1 DEF Flag
  <2>3. /\ \A w \in waiting : w.doc <= changes' BY <1>1, <1>2, <1>3 DEF CountsOK
  <2>4. \A s \in Tabs : page[s].doc <= changes' BY <1>1, <1>2, <1>3 DEF CountsOK
  <2>5. QED BY <1>1, <1>2, <2>1, <2>2, <2>3, <2>4 DEF PagesOK
<1>10. ASSUME NEW t \in Tabs, DomTimer(t) PROVE PagesOK'
  <2>1. script' = [script EXCEPT ![t].timer = FALSE] /\ UNCHANGED <<page, active, changes, closing>>
        /\ waiting' = Notice(t, "CHANGE")
    BY <1>10 DEF DomTimer, PageStep
  <2>2. script' = [u \in Tabs |-> script'[u]] /\ \A u \in Tabs : script'[u] \in Script BY <1>2, <2>1 DEF Flag
  <2>3. waiting' \subseteq Message /\ \A w \in waiting' : w.doc <= changes BY <1>5, <2>1
  <2>4. QED BY <1>1, <1>2, <2>1, <2>2, <2>3 DEF PagesOK
<1>11. ASSUME NEW w \in waiting, Send(w) PROVE PagesOK'
  BY <1>1, <1>11 DEF PagesOK, Send
<1>12. ASSUME NEW t \in Tabs \cup {Elsewhere}, Activate(t) PROVE PagesOK'
  <2>1. active' = t /\ UNCHANGED <<page, script, waiting, closing>> BY <1>12 DEF Activate, PageStep
  <2>2. \A w \in waiting : w.doc <= changes' BY <1>1, <1>2, <1>3 DEF CountsOK
  <2>3. \A s \in Tabs : page[s].doc <= changes' BY <1>1, <1>2, <1>3 DEF CountsOK
  <2>4. QED BY <1>1, <1>2, <2>1, <2>2, <2>3 DEF PagesOK
<1>13. ASSUME NEW t \in Tabs, CloseTab(t) PROVE PagesOK'
  <2>1. page' = [page EXCEPT ![t].open = FALSE] /\ script' = [script EXCEPT ![t] = NoScript]
        /\ waiting' = Others(t) /\ closing' = closing \cup {t} /\ UNCHANGED <<active, changes>>
    BY <1>13 DEF CloseTab
  <2>2. script' \in [Tabs -> Script] BY <1>2, <1>4, <2>1
  <2>3. /\ page' = [s \in Tabs |-> page'[s]]
        /\ \A s \in Tabs : page'[s] \in [open : Flag, url : Urls, doc : Nat] /\ page'[s].doc = page[s].doc
    BY <1>2, <2>1 DEF Flag
  <2>4. QED BY <1>1, <1>2, <2>1, <2>2, <2>3 DEF PagesOK, Others
<1>14. ASSUME NEW t \in Tabs, Resubmit(t) PROVE PagesOK' BY <1>1, <1>14, PagesSame DEF Resubmit
<1>15. CASE Pages
  BY <1>6, <1>7, <1>8, <1>9, <1>10, <1>11, <1>12, <1>13, <1>14, <1>15 DEF Pages
<1>16. CASE UNCHANGED vars BY <1>1, <1>16, PagesSame DEF vars
<1>17. CASE Writes
  BY <1>1, <1>17, PagesSame DEF Writes, WriteStep, StoreCapture, Authorize, StoreObservation, Lose, ExpireClosed,
     Delete, Snapshot
<1>18. CASE Reviewing
  BY <1>1, <1>18, PagesSame DEF Reviewing, HandlerStep, Begin, Cancel, Save, ReadCandidate, Prepare, VerifyPage,
     StoreConfirmation, Abort
<1>19. CASE Tick \/ Crash BY <1>1, <1>19, PagesSame DEF Tick, Crash
<1>20. QED BY <1>15, <1>16, <1>17, <1>18, <1>19 DEF Next

\* The capture a submission makes.
Fresh(m) ==
  /\ m.attempt = attempts + 1 /\ attempts' = attempts + 1
  /\ m.at = clock /\ m.doc <= changes /\ stored' = stored
\* What a step does to the messages and to the captures the pages remember.
MessagesStep ==
  /\ \A m \in net' : /\ m \in Requester \cup Observer /\ Timely(m)
                     /\ m \in Requester => (m \in Made /\ (m \in net \/ m.at = clock)) \/ Fresh(m)
  /\ \A t \in Tabs : script'[t].last \in Requester => script'[t].last = script[t].last \/ Fresh(script'[t].last)

LEMMA NoneIsNoRequest == None \notin Requester
<1>1. ASSUME NEW m \in Requester PROVE m # None
  <2>1. DOMAIN m # DOMAIN None BY DEF Requester, None
  <2>2. QED BY <2>1
<1>2. QED BY <1>1

(* Messages that leave, and pages that forget.                              *)
LEMMA FewerMessages ==
  ASSUME NetOK, net' \subseteq net, \A t \in Tabs : script'[t].last \in {script[t].last, None}
  PROVE  MessagesStep
<1>1. \A m \in net' : m \in Requester \cup Observer /\ Timely(m) /\ (m \in Requester => m \in Made)
  BY DEF NetOK, Made
<1>2. \A t \in Tabs : script'[t].last \in Requester => script'[t].last = script[t].last
  BY NoneIsNoRequest
<1>3. QED BY <1>1, <1>2 DEF MessagesStep

LEMMA Messages == ASSUME Typed, [Next]_vars PROVE MessagesStep
<1> DEFINE Script == [last : Requester \cup {None}, dom : Flag, timer : Flag]
<1>1. CountsOK /\ PagesOK /\ NetOK /\ script \in [Tabs -> Script] BY DEF Typed, PagesOK
<1>2. ASSUME net' \subseteq net, script' = script PROVE MessagesStep BY <1>1, <1>2, FewerMessages
<1>3. ASSUME NEW t \in Tabs, Submit(t) PROVE MessagesStep
  <2> DEFINE m == Capture(attempts + 1, t, page[t].doc, page[t].url, clock)
  <2>1. m \in Requester BY <1>1, CaptureTyped
  <2>2. net' = net \cup {m} /\ script' = [script EXCEPT ![t].last = m, ![t].dom = FALSE] BY <1>3 DEF Submit
  <2>3. Fresh(m) /\ Timely(m)
    <3>1. m.attempt = attempts + 1 /\ m.at = clock /\ m.doc = page[t].doc BY DEF Capture
    <3>2. attempts' = attempts + 1 /\ stored' = stored BY <1>3 DEF Submit, workerVars
    <3> HIDE DEF m
    <3>3. QED BY <1>1, <3>1, <3>2 DEF Fresh, Timely, PagesOK, CountsOK
  <2> HIDE DEF m
  <2>4. \A u \in Tabs : script'[u].last \in {script[u].last, m}
    <3>1. ASSUME NEW u \in Tabs PROVE script'[u].last \in {script[u].last, m}
      <4>1. CASE u = t
        <5>1. script'[u] = [script[u] EXCEPT !.last = m, !.dom = FALSE] BY <1>1, <2>2, <4>1
        <5>2. script[u] \in Script BY <1>1
        <5>3. QED BY <5>1, <5>2
      <4>2. CASE u # t BY <1>1, <2>2, <4>2
      <4>3. QED BY <4>1, <4>2
    <3>2. QED BY <3>1
  <2>5. \A n \in net : n \in Requester \cup Observer /\ Timely(n) /\ (n \in Requester => n \in Made)
    BY <1>1 DEF NetOK, Made
  <2>6. QED BY <2>1, <2>2, <2>3, <2>4, <2>5 DEF MessagesStep
<1>4. ASSUME NEW t \in Tabs, Resubmit(t) PROVE MessagesStep
  <2>1. net' = net \cup {script[t].last} /\ script' = script /\ script[t].last \in Requester
    BY <1>1, <1>4 DEF Resubmit, browserVars
  <2>2. script[t].last \in Made /\ script[t].last.at = clock BY <1>4, <2>1 DEF Made, Resubmit
  <2>3. QED BY <1>1, <2>1, <2>2 DEF MessagesStep, NetOK, Made
<1>5. ASSUME NEW w \in waiting, Send(w) PROVE MessagesStep
  <2> DEFINE m == Observation(w, page[w.tab].url, clock)
  <2>1. m \in Observer /\ m \notin Requester /\ Timely(m)
    <3>1. /\ w.kind \in {"DOCUMENT", "CHANGE"} /\ w.tab \in Tabs /\ w.doc \in Nat /\ w.doc <= changes
          /\ page[w.tab].url \in Urls /\ clock \in Nat
      BY <1>1 DEF PagesOK, CountsOK
    <3>2. QED BY <3>1 DEF Observation, Observer, Requester, Timely, Flag
  <2>2. net' = net \cup {m} /\ script' = script BY <1>5 DEF Send
  <2> HIDE DEF m
  <2>3. QED BY <1>1, <2>1, <2>2 DEF MessagesStep, NetOK, Made
<1>6. ASSUME NEW m \in net, Authorize(m) PROVE MessagesStep
  <2> DEFINE n == [m EXCEPT !.checked = TRUE]
  <2>1. m \in Observer /\ Timely(m) BY <1>1, <1>6 DEF Authorize, NetOK, Requester
  <2>2. n \in Observer /\ n \notin Requester /\ Timely(n) BY <2>1 DEF Observer, Requester, Timely, Flag
  <2>3. net' = (net \ {m}) \cup {n} /\ script' = script BY <1>6 DEF Authorize, WriteStep, browserVars
  <2> HIDE DEF n
  <2>4. QED BY <1>1, <2>2, <2>3 DEF MessagesStep, NetOK, Made
<1>7. ASSUME NEW t \in Tabs, script' = [script EXCEPT ![t] = NoScript], net' = net PROVE MessagesStep
  <2>1. \A u \in Tabs : script'[u].last \in {script[u].last, None} BY <1>1, <1>7 DEF NoScript
  <2>2. QED BY <1>1, <1>7, <2>1, FewerMessages
<1>8. ASSUME NEW t \in Tabs, (\E u \in Urls : Navigate(t, u)) \/ CloseTab(t) PROVE MessagesStep
  BY <1>7, <1>8 DEF Navigate, PageStep, CloseTab
<1>9. ASSUME NEW t \in Tabs, Mutate(t) \/ DomTimer(t) PROVE MessagesStep
  <2>1. net' = net BY <1>9 DEF Mutate, DomTimer, PageStep
  <2>2. CASE Mutate(t)
    <3>1. script' = [script EXCEPT ![t].dom = TRUE, ![t].timer = TRUE] BY <2>2 DEF Mutate
    <3>2. \A u \in Tabs : script'[u].last = script[u].last BY <1>1, <3>1
    <3>3. QED BY <1>1, <2>1, <3>2, FewerMessages
  <2>3. CASE DomTimer(t)
    <3>1. script' = [script EXCEPT ![t].timer = FALSE] BY <2>3 DEF DomTimer
    <3>2. \A u \in Tabs : script'[u].last = script[u].last BY <1>1, <3>1
    <3>3. QED BY <1>1, <2>1, <3>2, FewerMessages
  <2>4. QED BY <1>9, <2>2, <2>3
<1>10. CASE Pages
  <2>1. ASSUME NEW t \in Tabs, NEW u \in Urls, History(t, u) PROVE MessagesStep
    BY <1>2, <2>1 DEF History, PageStep
  <2>2. ASSUME NEW t \in Tabs \cup {Elsewhere}, Activate(t) PROVE MessagesStep BY <1>2, <2>2 DEF Activate, PageStep
  <2>3. QED BY <1>3, <1>4, <1>5, <1>8, <1>9, <1>10, <2>1, <2>2 DEF Pages
<1>11. CASE UNCHANGED vars BY <1>2, <1>11 DEF vars, browserVars
<1>12. CASE Writes
  BY <1>2, <1>6, <1>12 DEF Writes, WriteStep, StoreCapture, StoreObservation, Lose, ExpireClosed, Delete, Snapshot, browserVars
<1>13. CASE Reviewing
  BY <1>2, <1>13 DEF Reviewing, HandlerStep, Begin, Cancel, Save, ReadCandidate, Prepare, VerifyPage,
     StoreConfirmation, Abort, browserVars
<1>14. CASE Tick \/ Crash BY <1>2, <1>14 DEF Tick, Crash, browserVars
<1>15. QED BY <1>10, <1>11, <1>12, <1>13, <1>14 DEF Next

(* Captures are numbered in the order they are made.                        *)
LEMMA NetKept == ASSUME Typed, [Next]_vars PROVE NetOK' /\ \A m \in Made' : m \in Made \/ Fresh(m)
<1>1. MessagesStep /\ CountsOK' /\ changes <= changes' /\ clock <= clock' /\ attempts <= attempts'
  BY Messages, CountsKept
<1>2. CountsOK /\ NetOK BY DEF Typed
<1>3. ASSUME NEW m \in Made' PROVE m \in Requester /\ (m \in Made \/ Fresh(m))
  BY <1>1 DEF Made, MessagesStep
<1>4. ASSUME NEW m \in Requester \cup Observer, Timely(m) PROVE m.doc <= changes' /\ m.at <= clock'
  <2>1. m.doc \in Nat /\ m.at \in Nat BY <1>4 DEF Requester, Observer
  <2>2. QED BY <1>1, <1>2, <1>4, <2>1 DEF CountsOK, Timely
<1>5. ASSUME NEW m \in Made' PROVE m.doc <= changes' /\ m.at <= clock' /\ m.attempt \in 1..attempts'
  <2>1. CASE m \in Made
    <3>1. Timely(m) /\ m.attempt \in 1..attempts BY <1>2, <2>1 DEF NetOK
    <3>2. QED BY <1>1, <1>2, <1>3, <1>4, <3>1 DEF CountsOK
  <2>2. CASE Fresh(m)
    <3>1. m.doc <= changes /\ m.at <= clock BY <1>2, <2>2 DEF Fresh, CountsOK
    <3>2. Timely(m) BY <3>1 DEF Timely
    <3>3. QED BY <1>2, <1>3, <1>4, <2>2, <3>2 DEF Fresh, CountsOK
  <2>3. QED BY <1>3, <2>1, <2>2
<1>6. ASSUME NEW m \in Made', NEW n \in Made', m.attempt = n.attempt PROVE m.at = n.at
  <2>1. \A x \in Made : x.attempt \in 1..attempts BY <1>2 DEF NetOK
  <2>2. QED BY <1>2, <1>3, <1>6, <2>1 DEF NetOK, Fresh, CountsOK
<1>7. \A m \in net' : m \in Requester \cup Observer /\ m.doc <= changes' /\ m.at <= clock'
  BY <1>1, <1>4 DEF MessagesStep
<1>8. QED BY <1>3, <1>5, <1>6, <1>7 DEF NetOK, Timely

\* What a step does to the index, in short.
Appends(m) ==
  /\ m \in Made /\ m.attempt \in 1..attempts \ DOMAIN stored
  /\ DOMAIN stored' = DOMAIN stored \cup {m.attempt}
  /\ stored'[m.attempt] = NewReceipt(m)
Keeps(r, s) == s.nth = r.nth /\ s.tab = r.tab /\ s.at = r.at /\ s.origin = r.origin

(* A receipt keeps its place, its tab and its time, and at most one comes.  *)
LEMMA StoredStep ==
  ASSUME Typed, [Next]_vars
  PROVE  /\ \A a \in DOMAIN stored \cap DOMAIN stored' : Good(stored'[a]) /\ Keeps(stored[a], stored'[a])
         /\ DOMAIN stored' \subseteq DOMAIN stored \/ \E m \in Made : Appends(m) /\ stored' # stored
<1>1. \A a \in DOMAIN stored : Good(stored[a]) BY DEF Typed, StoredOK
<1>2. CASE Rewrites BY <1>2 DEF Rewrites, Evolves, Keeps
<1>3. ASSUME NEW m \in net, StoreCapture(m), ~Rewrites
      PROVE  /\ \A a \in DOMAIN stored \cap DOMAIN stored' : Good(stored'[a]) /\ Keeps(stored[a], stored'[a])
             /\ m \in Made /\ Appends(m) /\ stored' # stored
  <2>1. stored' # stored BY <1>3, SameRewrites DEF Typed
  <2>2. QED BY <1>3, <2>1, CaptureStored DEF Appends, Evolves, Keeps
<1>4. ASSUME NEW b \in DOMAIN stored, Delete(b)
      PROVE  /\ \A a \in DOMAIN stored \cap DOMAIN stored' : Good(stored'[a]) /\ Keeps(stored[a], stored'[a])
             /\ DOMAIN stored' \subseteq DOMAIN stored
  BY <1>1, <1>4 DEF Delete, Keeps
<1>5. ASSUME NEW h \in handlers, StoreConfirmation(h), ~Rewrites
      PROVE  /\ \A a \in DOMAIN stored \cap DOMAIN stored' : Good(stored'[a]) /\ Keeps(stored[a], stored'[a])
             /\ DOMAIN stored' \subseteq DOMAIN stored
  <2>1. stored' # stored BY <1>5, SameRewrites DEF Typed
  <2>2. QED BY <1>1, <1>5, <2>1, ConfirmationStored DEF Keeps
<1>6. QED BY <1>2, <1>3, <1>4, <1>5, StoredChanges

(* Time only makes a good context better.                                   *)
LEMMA LaterGood ==
  ASSUME NEW r, Good(r), CountsOK, CountsOK', changes <= changes', clock <= clock'
  PROVE  Good(r)'
<1>1. r.doc \in Nat /\ r.seen \in Nat BY DEF Good, Receipt
<1>2. r.doc <= changes' /\ r.seen <= clock' BY <1>1 DEF Good, CountsOK
<1>3. QED BY <1>2 DEF Good, Evidence, ValidEvidence

LEMMA StoredKept == ASSUME Typed, [Next]_vars PROVE StoredOK'
<1>1. CountsOK /\ CountsOK' /\ changes <= changes' /\ clock <= clock' /\ attempts <= attempts'
  BY CountsKept DEF Typed
<1>2. /\ \A a \in DOMAIN stored \cap DOMAIN stored' : Good(stored'[a]) /\ Keeps(stored[a], stored'[a])
      /\ DOMAIN stored' \subseteq DOMAIN stored \/ \E m \in Made : Appends(m) /\ stored' # stored
  BY StoredStep
<1>3. \A m \in Made' : m \in Made \/ Fresh(m) BY NetKept
<1>4. /\ DOMAIN stored \subseteq 1..attempts
      /\ \A m \in Made : m.attempt \in DOMAIN stored => stored[m.attempt].at = m.at
      /\ \A m, n \in Made : m.attempt = n.attempt => m.at = n.at
  BY DEF Typed, StoredOK, NetOK
<1>5. ASSUME \A a \in DOMAIN stored' : Good(stored'[a])
      PROVE  (\A a \in DOMAIN stored : Good(stored[a]))'
  <2>1. ASSUME NEW a \in DOMAIN stored' PROVE Good(stored[a])'
    <3>1. PICK r : r = stored'[a] OBVIOUS
    <3>2. Good(r) BY <1>5, <2>1, <3>1
    <3>3. Good(r)' BY <1>1, <3>2, LaterGood
    <3>4. QED BY <3>1, <3>3 DEF Good, Evidence, ValidEvidence
  <2>2. QED BY <2>1
<1>6. CASE DOMAIN stored' \subseteq DOMAIN stored
  <2>1. \A a \in DOMAIN stored' : Good(stored'[a]) BY <1>2, <1>6
  <2>2. ASSUME NEW m \in Made', m.attempt \in DOMAIN stored' PROVE stored'[m.attempt].at = m.at
    <3>1. CASE m \in Made BY <1>2, <1>4, <1>6, <2>2, <3>1 DEF Keeps
    <3>2. CASE Fresh(m) BY <1>1, <1>4, <1>6, <2>2, <3>2 DEF Fresh, CountsOK
    <3>3. QED BY <1>3, <3>1, <3>2
  <2>3. PICK n \in Nat : \A a \in DOMAIN stored : stored[a].nth <= n BY DEF Typed, StoredOK
  <2>4. \A a \in DOMAIN stored' : stored'[a].nth <= n BY <1>2, <1>6, <2>3 DEF Keeps
  <2>5. DOMAIN stored' \subseteq 1..attempts' BY <1>1, <1>4, <1>6 DEF CountsOK
  <2>6. QED BY <1>5, <2>1, <2>2, <2>4, <2>5 DEF StoredOK
<1>7. ASSUME NEW m \in Made, Appends(m), stored' # stored PROVE StoredOK'
  <2>1. Good(NewReceipt(m)) /\ NewReceipt(m).at = m.at /\ NewReceipt(m).nth = NextPlace BY NewIsGood
  <2>2. \A a \in DOMAIN stored' : Good(stored'[a]) BY <1>2, <1>7, <2>1 DEF Appends
  <2>3. ASSUME NEW n \in Made', n.attempt \in DOMAIN stored' PROVE stored'[n.attempt].at = n.at
    <3>1. n \in Made BY <1>3, <1>7 DEF Fresh
    <3>2. CASE n.attempt = m.attempt BY <1>4, <1>7, <2>1, <3>1, <3>2 DEF Appends
    <3>3. CASE n.attempt # m.attempt BY <1>2, <1>4, <1>7, <2>3, <3>1, <3>3 DEF Appends, Keeps
    <3>4. QED BY <3>2, <3>3
  <2>4. NextPlace \in Nat /\ \A a \in DOMAIN stored : stored[a].nth < NextPlace BY NewPlace DEF Typed
  <2>5. \A a \in DOMAIN stored : stored[a].nth \in Nat BY DEF Typed, StoredOK, Good, Receipt
  <2>6. \A a \in DOMAIN stored' : stored'[a].nth <= NextPlace
    BY <1>2, <1>7, <2>1, <2>4, <2>5 DEF Appends, Keeps
  <2>7. DOMAIN stored' \subseteq 1..attempts' BY <1>1, <1>4, <1>7 DEF CountsOK, Appends
  <2>8. QED BY <1>5, <2>2, <2>3, <2>4, <2>6, <2>7 DEF StoredOK
<1>8. QED BY <1>2, <1>6, <1>7

(* The oldest review is there to be dropped.                                *)
LEMMA Oldest ==
  ASSUME NEW S \in SUBSET Review, S # {}, NEW n \in Nat, \A v \in S : v.review <= n
  PROVE  \E v \in S : \A w \in S : v.review <= w.review
<1> DEFINE T == {n - v.review : v \in S}
<1>1. \A v \in S : v.review \in Nat BY DEF Review
<1>2. T \subseteq Nat /\ T # {}
  <2>1. \A v \in S : n - v.review \in Nat BY <1>1
  <2>2. QED BY <2>1
<1>3. \A x \in T : x <= n BY <1>1
<1>4. PICK x \in T : \A y \in T : y <= x
  <2> HIDE DEF T
  <2> QED BY <1>2, <1>3, Greatest
<1>5. PICK v \in S : x = n - v.review BY <1>4
<1>6. \A w \in S : n - w.review <= n - v.review BY <1>4, <1>5
<1>7. QED BY <1>1, <1>6

(* A new review has room (storeReviewSession).                              *)
LEMMA RoomForReview ==
  ASSUME WorkerOK, CountsOK, NEW v
  PROVE  /\ Evicted(Purged) \subseteq sessions
         /\ IsFiniteSet(Evicted(Purged) \cup {v}) /\ Cardinality(Evicted(Purged) \cup {v}) <= MaxSessions
<1> DEFINE S == Purged
           old == CHOOSE x \in S : \A w \in S : x.review <= w.review
<1>1. S \subseteq sessions /\ IsFiniteSet(S) /\ Cardinality(S) <= MaxSessions /\ Cardinality(S) \in Nat
      /\ MaxSessions \in Nat \ {0}
  <2>1. S \subseteq sessions BY DEF Purged
  <2>2. IsFiniteSet(S) /\ Cardinality(S) <= Cardinality(sessions) BY <2>1, FS_Subset DEF WorkerOK
  <2>3. Cardinality(S) \in Nat /\ Cardinality(sessions) \in Nat
        /\ MaxSessions \in Nat \ {0} /\ Cardinality(sessions) <= MaxSessions
    BY <2>2, FS_CardinalityType, ConfirmationAssumption DEF WorkerOK
  <2> HIDE DEF S
  <2>4. QED BY <2>1, <2>2, <2>3
<1>2. Evicted(S) = IF Cardinality(S) < MaxSessions THEN S ELSE S \ {old} BY DEF Evicted
<1>3. S # {} => old \in S
  <2>1. S \subseteq Review /\ (\A w \in S : w.review <= reviews) /\ reviews \in Nat
    BY <1>1 DEF WorkerOK, CountsOK
  <2>2. S # {} => \E x \in S : \A w \in S : x.review <= w.review
    <3> HIDE DEF S
    <3> QED BY <2>1, Oldest
  <2>3. QED BY <2>2
<1> HIDE DEF S, old
<1>4. Evicted(S) \subseteq S /\ IsFiniteSet(Evicted(S)) /\ Cardinality(Evicted(S)) <= MaxSessions - 1
  <2>1. CASE Cardinality(S) < MaxSessions BY <1>1, <1>2, <2>1
  <2>2. CASE ~(Cardinality(S) < MaxSessions)
    <3>1. S # {} BY <1>1, <2>2, FS_EmptySet
    <3>2. IsFiniteSet(S \ {old}) /\ Cardinality(S \ {old}) = Cardinality(S) - 1
      BY <1>1, <1>3, <3>1, FS_RemoveElement
    <3>3. QED BY <1>1, <1>2, <2>2, <3>2
  <2>3. QED BY <2>1, <2>2
<1>5. Cardinality(Evicted(S)) \in Nat BY <1>4, FS_CardinalityType
<1>6. /\ IsFiniteSet(Evicted(S) \cup {v})
      /\ Cardinality(Evicted(S) \cup {v}) \in {Cardinality(Evicted(S)), Cardinality(Evicted(S)) + 1}
  BY <1>4, FS_AddElement
<1>7. Cardinality(Evicted(S) \cup {v}) <= MaxSessions BY <1>1, <1>4, <1>5, <1>6
<1>8. QED BY <1>1, <1>4, <1>6, <1>7 DEF S

(* Reviews that end.                                                        *)
LEMMA FewerReviews ==
  ASSUME WorkerOK, NEW S, S \subseteq sessions
  PROVE  IsFiniteSet(S) /\ Cardinality(S) <= MaxSessions
<1>1. IsFiniteSet(sessions) /\ Cardinality(sessions) <= MaxSessions /\ MaxSessions \in Nat
  BY ConfirmationAssumption DEF WorkerOK
<1>2. IsFiniteSet(S) /\ Cardinality(S) <= Cardinality(sessions) BY <1>1, FS_Subset
<1>3. Cardinality(S) \in Nat /\ Cardinality(sessions) \in Nat BY <1>1, <1>2, FS_CardinalityType
<1>4. QED BY <1>1, <1>2, <1>3

LEMMA LaterBounded ==
  ASSUME Typed, [Next]_vars, NEW h \in Selecting \cup Preparing \cup Verifying \cup Confirming, Bounded(h)
  PROVE  Bounded(h)'
<1>1. CountsOK /\ CountsOK' /\ changes <= changes' /\ clock <= clock' /\ attempts <= attempts'
  BY CountsKept DEF Typed
<1>2. h.pc = "prepare" => h.doc \in Nat BY DEF Selecting, Preparing, Verifying, Confirming
<1>3. h.pc \in {"verify", "confirm"} => h.at \in Nat BY DEF Selecting, Preparing, Verifying, Confirming
<1>4. QED BY <1>1, <1>2, <1>3 DEF Bounded, CountsOK

(* Requests that end or go on, and reviews that end.                        *)
LEMMA WorkerStep ==
  ASSUME Typed, [Next]_vars, sessions' \subseteq sessions,
         NEW g, handlers' \subseteq handlers \cup {g},
         g \in handlers' \ handlers => g \in Selecting \cup Preparing \cup Verifying \cup Confirming /\ Bounded(g)
  PROVE  WorkerOK'
<1>1. CountsOK /\ CountsOK' /\ reviews <= reviews' BY CountsKept DEF Typed
<1>2. WorkerOK BY DEF Typed
<1>3. IsFiniteSet(sessions') /\ Cardinality(sessions') <= MaxSessions BY <1>2, FewerReviews
<1>4. sessions' \subseteq Review /\ \A v \in sessions' : v.review \in 1..reviews' BY <1>1, <1>2 DEF WorkerOK, CountsOK
<1>5. ASSUME NEW h \in handlers'
      PROVE  h \in Selecting \cup Preparing \cup Verifying \cup Confirming /\ Bounded(h)'
  <2>1. h \in Selecting \cup Preparing \cup Verifying \cup Confirming /\ Bounded(h) BY <1>2 DEF WorkerOK
  <2>2. QED BY <2>1, LaterBounded
<1>6. QED BY <1>3, <1>4, <1>5 DEF WorkerOK

LEMMA WorkerKept == ASSUME Typed, [Next]_vars PROVE WorkerOK'
<1>1. CountsOK /\ PagesOK /\ StoredOK /\ WorkerOK /\ CountsOK' BY CountsKept DEF Typed
<1>2. ASSUME sessions' \subseteq sessions, handlers' \subseteq handlers PROVE WorkerOK'
  BY <1>2, WorkerStep
<1>3. CASE Begin
  <2> DEFINE a == Foremost(Opportunities)
             g == [pc |-> "select", attempt |-> a, tab |-> active, url |-> InSnapshot[a].url]
  <2>1. Opportunities # {} /\ active \in Tabs /\ stored' = InSnapshot /\ sessions' = sessions
        /\ handlers' = handlers \cup {g}
    BY <1>3 DEF Begin, Shown
  <2>2. a \in DOMAIN stored /\ a \in 1..attempts
    <3>1. Opportunities \subseteq DOMAIN stored BY DEF Opportunities
    <3>2. QED BY <1>1, <2>1, <3>1, Front DEF StoredOK
  <2>3. InSnapshot[a].url \in Urls
    <3>1. Rewrites BY <2>1, SnapshotRewrites
    <3>2. Good(stored'[a]) BY <2>2, <3>1 DEF Rewrites
    <3>3. QED BY <2>1, <3>2 DEF Good, Receipt
  <2>4. g \in Selecting /\ Bounded(g)
    <3> HIDE DEF a
    <3> QED BY <1>1, <2>1, <2>2, <2>3 DEF Selecting, Bounded, CountsOK
  <2> HIDE DEF a, g
  <2>5. QED BY <2>1, <2>4, WorkerStep
<1>4. ASSUME NEW h \in handlers, ReadCandidate(h) PROVE WorkerOK'
  <2> DEFINE g == [pc |-> "prepare", attempt |-> h.attempt, tab |-> h.tab, url |-> h.url, doc |-> page[h.tab].doc]
  <2>1. h.pc = "select" /\ sessions' = sessions /\ handlers' = (handlers \ {h}) \cup {g}
    BY <1>4 DEF ReadCandidate, Instead
  <2>2. h \in Selecting /\ Bounded(h)
    BY <1>1, <2>1 DEF WorkerOK, Selecting, Preparing, Verifying, Confirming
  <2>3. page[h.tab].doc \in Nat /\ page[h.tab].doc <= changes BY <1>1, <2>2 DEF PagesOK, Selecting
  <2>4. g \in Preparing /\ Bounded(g) BY <2>1, <2>2, <2>3 DEF Selecting, Preparing, Bounded
  <2> HIDE DEF g
  <2>5. QED BY <2>1, <2>4, WorkerStep
<1>5. ASSUME NEW h \in handlers, VerifyPage(h) PROVE WorkerOK'
  <2> DEFINE g == [pc |-> "confirm", session |-> h.session, at |-> h.at]
  <2>1. h.pc = "verify" /\ sessions' = sessions /\ handlers' = (handlers \ {h}) \cup {g}
    BY <1>5 DEF VerifyPage, Instead
  <2>2. h \in Verifying /\ Bounded(h)
    BY <1>1, <2>1 DEF WorkerOK, Selecting, Preparing, Verifying, Confirming
  <2>3. g \in Confirming /\ Bounded(g) BY <2>1, <2>2 DEF Verifying, Confirming, Bounded
  <2> HIDE DEF g
  <2>4. QED BY <2>1, <2>3, WorkerStep
<1>6. ASSUME NEW v \in sessions, NEW consent \in BOOLEAN, Save(v, consent) PROVE WorkerOK'
  <2> DEFINE g == [pc |-> "verify", session |-> v, consent |-> consent, at |-> clock]
  <2>1. sessions' \subseteq sessions /\ handlers' = handlers \cup {g} BY <1>6 DEF Save, Purged
  <2>2. v \in Review /\ consent \in Flag /\ clock \in Nat BY <1>1 DEF WorkerOK, CountsOK, Flag
  <2>3. g \in Verifying /\ Bounded(g) BY <2>2 DEF Verifying, Bounded
  <2> HIDE DEF g
  <2>4. QED BY <2>1, <2>3, WorkerStep
<1>7. ASSUME NEW h \in handlers, Prepare(h) PROVE WorkerOK'
  <2> DEFINE r == stored[h.attempt] p == Prepared(r, h) v == Session(p, h)
  <2>1. /\ h.pc = "prepare" /\ h.attempt \in DOMAIN stored /\ r.status = "ACTIVE"
        /\ sessions' = Evicted(Purged) \cup {v} /\ handlers' = handlers \ {h} /\ reviews' = reviews + 1
    BY <1>7 DEF Prepare, Ended
  <2>2. h \in Preparing /\ Bounded(h) BY <1>1, <2>1 DEF WorkerOK, Selecting, Preparing, Verifying, Confirming
  <2>3. p \in Receipt
    <3>1. h.doc \in Nat /\ h.doc <= changes /\ h.url \in Urls BY <2>1, <2>2 DEF Preparing, Bounded
    <3>2. Good(p) BY <1>1, <2>1, <3>1, PreparedGood DEF StoredOK
    <3>3. QED BY <3>2 DEF Good
  <2>4. v \in Review /\ v.review = reviews + 1
    <3> HIDE DEF p
    <3>1. p.seq \in Nat /\ p.at \in Nat BY <2>3 DEF Receipt
    <3>2. CaptureWindow \in Nat /\ ReviewWindow \in Nat /\ clock \in Nat /\ reviews + 1 \in Nat
      BY <1>1, ConfirmationAssumption DEF CountsOK
    <3>3. Minimum(ExpiresAt(p), clock + ReviewWindow) \in Nat BY <3>1, <3>2 DEF Minimum, ExpiresAt
    <3>4. (Origin[h.url] # p.origin) \in Flag BY DEF Flag
    <3>5. QED BY <2>2, <3>1, <3>2, <3>3, <3>4 DEF Session, Review, Preparing
  <2> HIDE DEF v, p, r
  <2>5. /\ Evicted(Purged) \subseteq sessions
        /\ IsFiniteSet(sessions') /\ Cardinality(sessions') <= MaxSessions
    BY <1>1, <2>1, RoomForReview
  <2>6. sessions' \subseteq Review /\ \A w \in sessions' : w.review \in 1..reviews'
    BY <1>1, <2>1, <2>4, <2>5 DEF WorkerOK, CountsOK
  <2>7. ASSUME NEW g \in handlers'
        PROVE  g \in Selecting \cup Preparing \cup Verifying \cup Confirming /\ Bounded(g)'
    BY <1>1, <2>1, LaterBounded DEF WorkerOK
  <2>8. QED BY <2>5, <2>6, <2>7 DEF WorkerOK
<1>8. ASSUME NEW h \in handlers, StoreConfirmation(h) \/ Abort(h) PROVE WorkerOK'
  BY <1>2, <1>8 DEF StoreConfirmation, Abort, Ended
<1>9. CASE Reviewing
  BY <1>2, <1>3, <1>4, <1>5, <1>6, <1>7, <1>8, <1>9 DEF Reviewing, Cancel
<1>10. CASE Pages
  BY <1>2, <1>10 DEF Pages, PageStep, Submit, Resubmit, Mutate, DomTimer, CloseTab, Navigate, History,
     Activate, Send, workerVars
<1>11. CASE Writes
  BY <1>2, <1>11 DEF Writes, WriteStep, StoreCapture, Authorize, StoreObservation, Lose, ExpireClosed, Delete, Snapshot
<1>12. CASE UNCHANGED vars \/ Tick \/ Crash BY <1>2, <1>12 DEF vars, Tick, Crash, workerVars
<1>13. QED BY <1>9, <1>10, <1>11, <1>12 DEF Next

LEMMA InitTyped == Init => Typed
<1> SUFFICES ASSUME Init PROVE Typed OBVIOUS
<1>1. CountsOK BY DEF Init, CountsOK
<1>2. /\ page \in [Tabs -> [open : {TRUE}, url : Urls, doc : {0}]] /\ active \in Tabs /\ changes = 0
      /\ script = [t \in Tabs |-> NoScript] /\ waiting = {} /\ closing = {} /\ net = {}
  BY DEF Init
<1>3. PagesOK
  <2>1. NoScript \in [last : Requester \cup {None}, dom : Flag, timer : Flag] BY DEF NoScript, Flag
  <2>2. page \in [Tabs -> [open : Flag, url : Urls, doc : Nat]] /\ \A t \in Tabs : page[t].doc <= changes
    <3>1. ASSUME NEW t \in Tabs
          PROVE  page[t] \in [open : Flag, url : Urls, doc : Nat] /\ page[t].doc = 0
      <4>1. page[t] \in [open : {TRUE}, url : Urls, doc : {0}] BY <1>2
      <4>2. page[t].open = TRUE /\ page[t].url \in Urls /\ page[t].doc = 0
            /\ page[t] = [open |-> page[t].open, url |-> page[t].url, doc |-> page[t].doc]
        BY <4>1, Zenon
      <4>3. page[t].open \in Flag BY <4>2, Zenon DEF Flag
      <4>4. page[t].doc = 0 BY <4>2
      <4>5. page[t].doc \in Nat BY <4>4
      <4>6. QED BY <4>2, <4>3, <4>5, Zenon
    <3>2. page = [t \in Tabs |-> page[t]] BY <1>2, Zenon
    <3>3. QED BY <1>2, <3>1, <3>2
  <2>3. QED BY <1>2, <2>1, <2>2 DEF PagesOK
<1>4. Made = {} BY <1>2, NoneIsNoRequest DEF Made, NoScript
<1>5. NetOK BY <1>2, <1>4 DEF NetOK
<1>6. DOMAIN stored = {} BY DEF Init
<1>7. StoredOK BY <1>4, <1>6 DEF StoredOK
<1>8. WorkerOK
  <2>1. sessions = {} /\ handlers = {} /\ MaxSessions \in Nat BY ConfirmationAssumption DEF Init
  <2>2. IsFiniteSet(sessions) /\ Cardinality(sessions) = 0 BY <2>1, FS_EmptySet
  <2>3. QED BY <2>1, <2>2 DEF WorkerOK
<1>9. QED BY <1>1, <1>3, <1>5, <1>7, <1>8 DEF Typed

LEMMA Types == Spec => []Typed
<1>1. Typed /\ [Next]_vars => Typed'
  <2> SUFFICES ASSUME Typed, [Next]_vars PROVE Typed' OBVIOUS
  <2>1. QED BY CountsKept, PagesKept, NetKept, StoredKept, WorkerKept DEF Typed
<1>2. QED BY InitTyped, <1>1, PTL DEF Spec

(* What parseStoredAttemptReceipt demands of every stored receipt holds     *)
(* whenever it is asked, however captures, observations and reviews meet,   *)
(* and there are never more reviews than the worker allows.                 *)
THEOREM TypeCorrect == Spec => []TypeOK
<1>1. ASSUME Typed PROVE TypeOK
  <2>1. ASSUME NEW a \in DOMAIN stored PROVE ValidReceipt(stored[a])
    <3>1. PICK r : r = stored[a] OBVIOUS
    <3>2. Good(r) /\ r \in Receipt /\ CountsOK BY <1>1, <3>1 DEF Typed, StoredOK, Good
    <3>3. r.doc \in 0..changes /\ r.at \in 0..clock /\ r.seen \in r.at..clock
      BY <3>2 DEF Good, Receipt, CountsOK
    <3>4. r.conf # None <=> r.status = "COMPLETED" BY <3>2 DEF Good, Evidence
    <3>5. r.conf # None => ValidEvidence(r, r.conf, r.savedAt) BY <3>2 DEF Good, Evidence
    <3>6. r.tab \in Tabs /\ r.status \in Statuses /\ r.url \in Urls /\ r.seq \in Nat
      BY <3>2 DEF Receipt, Statuses
    <3>7. QED BY <3>1, <3>3, <3>4, <3>5, <3>6 DEF ValidReceipt
  <2>2. \A v \in sessions : v.review \in 1..reviews /\ v.tab \in Tabs BY <1>1 DEF Typed, WorkerOK, Review
  <2>3. QED BY <1>1, <2>1, <2>2 DEF TypeOK, Typed, StoredOK, WorkerOK, PagesOK
<1>2. QED BY <1>1, Types, PTL

-----------------------------------------------------------------------------
\* Contexts only move forward.

(* For any number of tabs, messages and reviews: a closed context stays as  *)
(* it is, and an open one never goes back (recordNavigationObservation).    *)
THEOREM ContextsAdvance == Spec => ContextsMoveForward
<1> DEFINE Forward(r, s) ==
             /\ s.seq >= r.seq /\ s.seen >= r.seen
             /\ r.status # "ACTIVE" => s = r
             /\ s.seq # r.seq => s.status = "ACTIVE"
<1>1. ASSUME Typed, [Next]_vars, NEW a \in DOMAIN stored \cap DOMAIN stored'
      PROVE  Forward(stored[a], stored'[a])
  <2>1. Good(stored[a]) /\ stored[a].seq \in Nat /\ stored[a].seen \in Nat
    BY <1>1 DEF Typed, StoredOK, Good, Receipt
  <2>2. CASE Evolves(stored[a], stored'[a]) BY <2>2 DEF Evolves
  <2>3. CASE stored' = stored BY <2>1, <2>3
  <2>4. ASSUME NEW b \in DOMAIN stored, Delete(b) PROVE Forward(stored[a], stored'[a])
    <3>1. stored'[a] = stored[a] BY <1>1, <2>4 DEF Delete
    <3>2. QED BY <2>1, <3>1
  <2>5. ASSUME NEW h \in handlers, StoreConfirmation(h), stored' # stored
        PROVE  Forward(stored[a], stored'[a])
    <3>1. CASE a = h.session.attempt
      <4>1. /\ stored'[a].seq = stored[a].seq /\ stored'[a].seen = stored[a].seen
            /\ stored[a].status = "ACTIVE"
        BY <1>1, <2>5, <3>1, ConfirmationStored
      <4>2. QED BY <2>1, <4>1
    <3>2. CASE a # h.session.attempt
      <4>1. stored'[a] = stored[a] BY <1>1, <2>5, <3>2, ConfirmationStored
      <4>2. QED BY <2>1, <4>1
    <3>3. QED BY <3>1, <3>2
  <2>6. QED BY <1>1, <2>2, <2>3, <2>4, <2>5, StoredChanges, CaptureStored DEF Rewrites
<1>2. Typed /\ [Next]_vars => [\A a \in DOMAIN stored \cap DOMAIN stored' :
                                LET r == stored[a] s == stored'[a] IN
                                /\ s.seq >= r.seq /\ s.seen >= r.seen
                                /\ r.status # "ACTIVE" => s = r
                                /\ s.seq # r.seq => s.status = "ACTIVE"]_stored
  BY <1>1
<1>3. QED BY <1>2, Types, PTL DEF Spec, ContextsMoveForward

-----------------------------------------------------------------------------
\* One open context in a tab.

LEMMA OneActiveKept ==
  ASSUME Typed, [Next]_vars, OneActivePerTab PROVE OneActivePerTab'
<1>1. \A a \in DOMAIN stored \cap DOMAIN stored' : Keeps(stored[a], stored'[a]) BY StoredStep
<1>2. ASSUME \A a \in DOMAIN stored \cap DOMAIN stored' : stored'[a].status = "ACTIVE" => stored[a].status = "ACTIVE",
             DOMAIN stored' \subseteq DOMAIN stored
      PROVE  OneActivePerTab'
  BY <1>1, <1>2 DEF OneActivePerTab, Keeps
<1>3. CASE Rewrites BY <1>2, <1>3 DEF Rewrites, Evolves
<1>4. ASSUME NEW b \in DOMAIN stored, Delete(b) PROVE OneActivePerTab' BY <1>2, <1>4 DEF Delete
<1>5. ASSUME NEW h \in handlers, StoreConfirmation(h), stored' # stored PROVE OneActivePerTab'
  <2>1. \A a \in DOMAIN stored : stored'[a].status = "ACTIVE" => stored[a].status = "ACTIVE"
    BY <1>5, ConfirmationStored
  <2>2. DOMAIN stored' = DOMAIN stored BY <1>5, ConfirmationStored
  <2>3. QED BY <1>2, <2>1, <2>2
<1>6. ASSUME NEW m \in net, StoreCapture(m), stored' # stored PROVE OneActivePerTab'
  <2>1. /\ DOMAIN stored' = DOMAIN stored \cup {m.attempt} /\ m.attempt \notin DOMAIN stored
        /\ stored'[m.attempt] = NewReceipt(m) /\ m \in Made
        /\ \A a \in DOMAIN stored :
             /\ Evolves(stored[a], stored'[a])
             /\ stored'[a].status = "ACTIVE" => stored[a].tab # m.tab
    BY <1>6, CaptureStored
  <2>2. NewReceipt(m).tab = m.tab /\ NewReceipt(m).nth = NextPlace BY <2>1, NewIsGood
  <2>3. NextPlace \in Nat /\ \A a \in DOMAIN stored : stored[a].nth < NextPlace /\ stored[a].nth \in Nat
    BY NewPlace DEF Typed, StoredOK, Good, Receipt
  <2>4. ASSUME NEW a \in DOMAIN stored', NEW b \in DOMAIN stored', a # b,
               stored'[a].tab = stored'[b].tab, stored'[b].status = "ACTIVE"
        PROVE  stored'[a].nth < stored'[b].nth
    <3>1. CASE a \in DOMAIN stored /\ b \in DOMAIN stored
      BY <1>1, <2>1, <2>4, <3>1 DEF OneActivePerTab, Keeps, Evolves
    <3>2. CASE a \in DOMAIN stored /\ b = m.attempt
      BY <2>1, <2>2, <2>3, <3>2 DEF Evolves
    <3>3. CASE a = m.attempt /\ b \in DOMAIN stored
      BY <2>1, <2>2, <2>4, <3>3 DEF Evolves
    <3>4. QED BY <2>1, <2>4, <3>1, <3>2, <3>3
  <2>5. QED BY <2>4 DEF OneActivePerTab
<1>7. QED BY <1>3, <1>4, <1>5, <1>6, StoredChanges, SameRewrites DEF Typed

(* However many captures, observations and reviews of however many tabs     *)
(* meet, evidence of a tab can enter one receipt only                       *)
(* (appendAttemptReceipt).                                                  *)
THEOREM OneOpenContext == Spec => []OneActivePerTab
<1>1. Init => OneActivePerTab BY DEF Init, OneActivePerTab
<1>2. Typed /\ OneActivePerTab /\ [Next]_vars => OneActivePerTab' BY OneActiveKept
<1>3. QED BY <1>1, <1>2, Types, PTL DEF Spec

-----------------------------------------------------------------------------
\* What was reviewed.

\* The receipt was deleted, and no capture can bring it back.
Gone(a) == \A m \in Made : m.attempt = a => m \notin net /\ m.at < clock
\* A review is of the context as it is or as it was before, or of none.
Live(v) ==
  /\ v.attempt \in 1..attempts /\ v.seq >= 1
  /\ IF v.attempt \in DOMAIN stored
     THEN LET r == stored[v.attempt] IN
          r.tab = v.tab /\ r.seq >= v.seq /\ (r.seq = v.seq => r.doc = v.doc /\ r.url = v.url)
     ELSE Gone(v.attempt)
ReviewsOK ==
  /\ \A v \in sessions : Live(v)
  /\ \A h \in handlers : h.pc \in {"verify", "confirm"} => Live(h.session) /\ h.at < h.session.expiresAt

(* A deleted receipt's capture is past its window of duplicates.            *)
LEMMA DeletedIsGone ==
  ASSUME Typed, NEW a \in DOMAIN stored, Delete(a) PROVE Gone(a)'
<1>1. clock > stored[a].at /\ (\A m \in Captures : m.attempt # a) /\ net' = net /\ script' = script /\ clock' = clock
  BY DEF Delete, WriteStep, browserVars
<1>2. Made' = Made BY <1>1 DEF Made
<1>3. ASSUME NEW m \in Made, m.attempt = a PROVE m \notin net /\ m.at < clock
  <2>1. m.at = stored[a].at BY <1>3 DEF Typed, StoredOK
  <2>2. m.kind = "SUBMIT" BY DEF Made, Requester
  <2>3. QED BY <1>1, <1>3, <2>1, <2>2 DEF Captures
<1>4. QED BY <1>1, <1>2, <1>3 DEF Gone

LEMMA GoneStays ==
  ASSUME Typed, [Next]_vars, NEW a \in 1..attempts, Gone(a) PROVE Gone(a)'
<1>1. MessagesStep /\ (\A m \in Made' : m \in Made \/ Fresh(m)) /\ CountsOK /\ CountsOK' /\ clock <= clock'
  BY Messages, NetKept, CountsKept DEF Typed
<1>2. ASSUME NEW m \in Made', m.attempt = a PROVE m \notin net' /\ m.at < clock'
  <2>1. ~Fresh(m) BY <1>1, <1>2 DEF Fresh, CountsOK
  <2>2. m \in Made /\ m \notin net /\ m.at < clock BY <1>1, <1>2, <2>1 DEF Gone
  <2>3. m \in Requester /\ m.at \in Nat BY <2>2 DEF Made, Requester
  <2>4. m \notin net' BY <1>1, <2>1, <2>2, <2>3 DEF MessagesStep, CountsOK
  <2>5. QED BY <1>1, <2>2, <2>3, <2>4 DEF CountsOK
<1>3. QED BY <1>2 DEF Gone

LEMMA LiveKept ==
  ASSUME Typed, [Next]_vars, NEW v \in Review, Live(v) PROVE Live(v)'
<1> DEFINE a == v.attempt
           Matches(r) == r.tab = v.tab /\ r.seq >= v.seq /\ (r.seq = v.seq => r.doc = v.doc /\ r.url = v.url)
<1>1. CountsOK /\ CountsOK' /\ attempts <= attempts' BY CountsKept DEF Typed
<1>2. a \in 1..attempts /\ a \in 1..attempts' /\ v.seq >= 1 /\ v.seq \in Nat BY <1>1 DEF Live, CountsOK, Review
<1>3. CASE a \in DOMAIN stored
  <2>1. Matches(stored[a]) BY <1>3 DEF Live
  <2>2. stored[a].seq \in Nat BY <1>3 DEF Typed, StoredOK, Good, Receipt
  <2>3. ASSUME a \in DOMAIN stored', Evolves(stored[a], stored'[a]) PROVE Matches(stored'[a])
    <3>1. stored'[a].seq \in Nat BY <1>3, <2>3, StoredStep DEF Good, Receipt
    <3>2. QED BY <1>2, <2>1, <2>2, <2>3, <3>1 DEF Evolves
  <2>4. ASSUME NEW b \in DOMAIN stored, Delete(b)
        PROVE  IF a \in DOMAIN stored' THEN Matches(stored'[a]) ELSE Gone(a)'
    <3>1. CASE b = a
      <4>1. a \notin DOMAIN stored' BY <2>4, <3>1 DEF Delete
      <4>2. PICK c : c = a OBVIOUS
      <4>3. Gone(c)' BY <2>4, <3>1, <4>2, DeletedIsGone
      <4>4. QED BY <4>1, <4>2, <4>3
    <3>2. CASE b # a
      <4>1. a \in DOMAIN stored' /\ stored'[a] = stored[a] BY <1>3, <2>4, <3>2 DEF Delete
      <4>2. QED BY <2>1, <4>1
    <3>3. QED BY <3>1, <3>2
  <2>5. ASSUME NEW h \in handlers, StoreConfirmation(h), stored' # stored
        PROVE  a \in DOMAIN stored' /\ Matches(stored'[a])
    <3>1. a \in DOMAIN stored' BY <1>3, <2>5, ConfirmationStored
    <3>2. stored'[a].seq = stored[a].seq /\ stored'[a].tab = stored[a].tab
          /\ stored'[a].doc = stored[a].doc /\ stored'[a].url = stored[a].url
      <4>1. CASE a = h.session.attempt BY <2>5, <4>1, ConfirmationStored
      <4>2. CASE a # h.session.attempt
        <5>1. stored'[a] = stored[a] BY <1>3, <2>5, <4>2, ConfirmationStored
        <5>2. QED BY <5>1
      <4>3. QED BY <4>1, <4>2
    <3>3. QED BY <2>1, <3>1, <3>2
  <2>6. ASSUME NEW m \in net, StoreCapture(m), stored' # stored
        PROVE  a \in DOMAIN stored' /\ Evolves(stored[a], stored'[a])
    BY <1>3, <2>6, CaptureStored
  <2>7. ASSUME Rewrites PROVE a \in DOMAIN stored' /\ Evolves(stored[a], stored'[a])
    BY <1>3, <2>7 DEF Rewrites
  <2>8. IF a \in DOMAIN stored' THEN Matches(stored'[a]) ELSE Gone(a)'
    BY <2>3, <2>4, <2>5, <2>6, <2>7, StoredChanges, SameRewrites DEF Typed
  <2>9. QED BY <1>2, <2>8 DEF Live
<1>4. CASE a \notin DOMAIN stored
  <2>1. Gone(a) BY <1>4 DEF Live
  <2>2. PICK c : c = a OBVIOUS
  <2>3. Gone(c)' BY <1>2, <2>1, <2>2, GoneStays
  <2>4. a \notin DOMAIN stored'
    <3>1. ASSUME NEW m \in net, StoreCapture(m), stored' # stored PROVE a \notin DOMAIN stored'
      BY <1>4, <2>1, <3>1, CaptureStored DEF Gone
    <3>2. ASSUME NEW b \in DOMAIN stored, Delete(b) PROVE a \notin DOMAIN stored' BY <1>4, <3>2 DEF Delete
    <3>3. ASSUME NEW h \in handlers, StoreConfirmation(h), stored' # stored PROVE a \notin DOMAIN stored'
      BY <1>4, <3>3, ConfirmationStored
    <3>4. ASSUME Rewrites PROVE a \notin DOMAIN stored' BY <1>4, <3>4 DEF Rewrites
    <3>5. QED BY <3>1, <3>2, <3>3, <3>4, StoredChanges, SameRewrites DEF Typed
  <2>5. QED BY <1>2, <2>2, <2>3, <2>4 DEF Live
<1>5. QED BY <1>3, <1>4

(* What a confirmed receipt says of the review it was saved from.           *)
LEMMA ConfirmedKept ==
  ASSUME Typed, [Next]_vars, ReviewsOK, ConfirmedWhatWasReviewed PROVE ConfirmedWhatWasReviewed'
<1> DEFINE Faithful(a, r) ==
             r.conf # None =>
               /\ r.status = "COMPLETED"
               /\ r.conf.attempt = a /\ r.conf.tab = r.tab
               /\ r.conf.doc = r.doc /\ r.conf.url = r.url /\ r.conf.seq = r.seq /\ r.seq > 0
               /\ r.savedAt < r.conf.expiresAt /\ ~Expired(r, r.savedAt)
<1>1. \A a \in DOMAIN stored : Faithful(a, stored[a]) BY DEF ConfirmedWhatWasReviewed
<1>2. ASSUME NEW a \in DOMAIN stored, Evolves(stored[a], stored'[a]) PROVE Faithful(a, stored'[a])
  <2>1. CASE stored[a].status = "ACTIVE"
    <3>1. stored[a].conf = None BY <1>1, <2>1
    <3>2. QED BY <1>2, <3>1 DEF Evolves
  <2>2. CASE stored[a].status # "ACTIVE"
    <3>1. stored'[a] = stored[a] BY <1>2, <2>2 DEF Evolves
    <3>2. Faithful(a, stored[a]) BY <1>1
    <3>3. QED BY <3>1, <3>2
  <2>3. QED BY <2>1, <2>2
<1>3. ASSUME NEW a \in DOMAIN stored', ~(a \in DOMAIN stored /\ Evolves(stored[a], stored'[a]))
      PROVE  Faithful(a, stored'[a])
  <2>1. ASSUME NEW b \in DOMAIN stored, Delete(b) PROVE Faithful(a, stored'[a])
    <3>1. a \in DOMAIN stored /\ stored'[a] = stored[a] BY <1>3, <2>1 DEF Delete
    <3>2. Faithful(a, stored[a]) BY <1>1, <3>1
    <3>3. QED BY <3>1, <3>2
  <2>2. ASSUME NEW m \in net, StoreCapture(m), stored' # stored PROVE Faithful(a, stored'[a])
    <3>1. m \in Made /\ a = m.attempt /\ stored'[a] = NewReceipt(m) BY <1>3, <2>2, CaptureStored
    <3>2. QED BY <3>1, NewIsGood
  <2>3. ASSUME NEW h \in handlers, StoreConfirmation(h), stored' # stored PROVE Faithful(a, stored'[a])
    <3> DEFINE v == h.session r == stored[v.attempt] s == stored'[v.attempt]
    <3>1. /\ h.pc = "confirm" /\ v.attempt \in DOMAIN stored /\ DOMAIN stored' = DOMAIN stored
          /\ \A b \in DOMAIN stored : b # v.attempt => stored'[b] = stored[b]
      BY <2>3, ConfirmationStored
    <3>2. /\ r.tab = v.tab /\ r.seq = v.seq /\ r.seq >= 1 /\ r.url = v.url /\ ~Expired(r, h.at)
          /\ s.status = "COMPLETED" /\ s.conf = v /\ s.savedAt = h.at /\ s.tab = r.tab /\ s.at = r.at
          /\ s.seq = r.seq /\ s.doc = r.doc /\ s.url = r.url /\ r.seq \in Nat
      <4>1. r.seq \in Nat BY <3>1 DEF Typed, StoredOK, Good, Receipt
      <4>2. QED BY <2>3, <4>1, ConfirmationStored
    <3>3. Live(v) /\ h.at < v.expiresAt BY <3>1 DEF ReviewsOK
    <3>4. r.doc = v.doc BY <3>1, <3>2, <3>3 DEF Live
    <3>5. CASE a = v.attempt
      <4>1. ~Expired(s, h.at) BY <3>2 DEF Expired, ExpiresAt
      <4> HIDE DEF v, r, s
      <4>2. Faithful(v.attempt, s) BY <3>2, <3>3, <3>4, <4>1
      <4>3. QED BY <3>5, <4>2 DEF s
    <3>6. CASE a # v.attempt
      <4>1. a \in DOMAIN stored /\ stored'[a] = stored[a] BY <1>3, <3>1, <3>6
      <4>2. Faithful(a, stored[a]) BY <1>1, <4>1
      <4>3. QED BY <4>1, <4>2
    <3>7. QED BY <3>5, <3>6
  <2>4. ~Rewrites BY <1>3 DEF Rewrites
  <2>5. QED BY <2>1, <2>2, <2>3, <2>4, StoredChanges, SameRewrites DEF Typed
<1>4. \A a \in DOMAIN stored' : Faithful(a, stored'[a]) BY <1>2, <1>3
<1>5. QED BY <1>4 DEF ConfirmedWhatWasReviewed, Expired, ExpiresAt

(* Reviews that end, and requests that end or go on with their review.      *)
LEMMA ReviewsStep ==
  ASSUME Typed, [Next]_vars, ReviewsOK,
         \A v \in sessions' : v \in sessions \/ Live(v)',
         \A h \in handlers' : h \in handlers \/ (h.pc \in {"verify", "confirm"} => Live(h.session) /\ h.at < h.session.expiresAt /\ h.session \in Review)
  PROVE  ReviewsOK'
<1>1. sessions \subseteq Review BY DEF Typed, WorkerOK
<1>2. ASSUME NEW v \in sessions' PROVE Live(v)'
  <2>1. v \in sessions => v \in Review /\ Live(v) BY <1>1 DEF ReviewsOK
  <2>2. QED BY <1>2, <2>1, LiveKept
<1>3. ASSUME NEW h \in handlers', h.pc \in {"verify", "confirm"} PROVE Live(h.session)' /\ h.at < h.session.expiresAt
  <2>1. Live(h.session) /\ h.at < h.session.expiresAt /\ h.session \in Review
    <3>1. h \in handlers => h.session \in Review
      BY <1>3 DEF Typed, WorkerOK, Selecting, Preparing, Verifying, Confirming
    <3>2. QED BY <1>3, <3>1 DEF ReviewsOK
  <2>2. PICK v : v = h.session OBVIOUS
  <2>3. Live(v)' BY <2>1, <2>2, LiveKept
  <2>4. QED BY <2>1, <2>2, <2>3
<1>4. QED BY <1>2, <1>3 DEF ReviewsOK

LEMMA ReviewsKept == ASSUME Typed, [Next]_vars, ReviewsOK PROVE ReviewsOK'
<1>1. WorkerOK BY DEF Typed
<1>2. ASSUME sessions' \subseteq sessions, handlers' \subseteq handlers PROVE ReviewsOK'
  BY <1>2, ReviewsStep
<1>3. CASE Begin
  <2>1. sessions' = sessions /\ \A h \in handlers' : h \in handlers \/ h.pc = "select" BY <1>3 DEF Begin
  <2>2. QED BY <2>1, ReviewsStep
<1>4. ASSUME NEW h \in handlers, ReadCandidate(h) PROVE ReviewsOK'
  <2>1. sessions' = sessions /\ \A g \in handlers' : g \in handlers \/ g.pc = "prepare"
    BY <1>4 DEF ReadCandidate, Instead
  <2>2. QED BY <2>1, ReviewsStep
<1>5. ASSUME NEW h \in handlers, VerifyPage(h) PROVE ReviewsOK'
  <2>1. h.pc = "verify" /\ sessions' = sessions
        /\ handlers' = (handlers \ {h}) \cup {[pc |-> "confirm", session |-> h.session, at |-> h.at]}
    BY <1>5 DEF VerifyPage, Instead
  <2>2. Live(h.session) /\ h.at < h.session.expiresAt BY <2>1 DEF ReviewsOK
  <2>3. h.session \in Review BY <1>1, <2>1 DEF WorkerOK, Selecting, Preparing, Verifying, Confirming
  <2>4. QED BY <2>1, <2>2, <2>3, ReviewsStep
<1>6. ASSUME NEW v \in sessions, NEW consent \in BOOLEAN, Save(v, consent) PROVE ReviewsOK'
  <2>1. sessions' \subseteq sessions /\ v.expiresAt > clock
        /\ handlers' = handlers \cup {[pc |-> "verify", session |-> v, consent |-> consent, at |-> clock]}
    BY <1>6 DEF Save, Purged
  <2>2. Live(v) /\ v \in Review /\ clock < v.expiresAt
    BY <1>1, <2>1 DEF ReviewsOK, WorkerOK, Review, Typed, CountsOK
  <2>3. QED BY <2>1, <2>2, ReviewsStep
<1>7. ASSUME NEW h \in handlers, Prepare(h) PROVE ReviewsOK'
  <2> DEFINE r == stored[h.attempt] p == Prepared(r, h) v == Session(p, h)
  <2>1. /\ h.pc = "prepare" /\ h.attempt \in DOMAIN stored /\ r.status = "ACTIVE" /\ r.tab = h.tab /\ p.seq >= 1
        /\ stored' = [stored EXCEPT ![h.attempt] = p]
        /\ sessions' = Evicted(Purged) \cup {v} /\ handlers' = handlers \ {h}
    BY <1>7 DEF Prepare, Ended, Put
  <2>2. h.doc \in Nat /\ h.doc <= changes /\ h.url \in Urls
    BY <1>1, <2>1 DEF WorkerOK, Bounded, Selecting, Preparing, Verifying, Confirming
  <2>3. p.doc = h.doc /\ p.url = h.url /\ Evolves(r, p) /\ p.seq \in Nat
    <3>1. Good(r) /\ CountsOK BY <2>1 DEF Typed, StoredOK
    <3>2. Good(p) /\ p.doc = h.doc /\ p.url = h.url /\ Evolves(r, p) BY <2>1, <2>2, <3>1, PreparedGood
    <3>3. QED BY <3>2 DEF Good, Receipt
  <2>4. Evicted(Purged) \subseteq sessions BY <1>1, RoomForReview DEF Typed
  <2>5. PICK w : w = v OBVIOUS
  <2>6. Live(w)'
    <3>1. DOMAIN stored' = DOMAIN stored /\ stored'[h.attempt] = p BY <2>1
    <3>2. w.attempt = h.attempt /\ w.tab = h.tab /\ w.doc = h.doc /\ w.url = h.url /\ w.seq = p.seq
      BY <2>5 DEF Session
    <3>3. h.attempt \in 1..attempts'
      BY <2>1, CountsKept DEF Typed, StoredOK, CountsOK
    <3>4. p.tab = h.tab BY <2>1, <2>3 DEF Evolves
    <3> HIDE DEF p, r, v
    <3>5. QED BY <2>1, <2>3, <3>1, <3>2, <3>3, <3>4 DEF Live
  <2> HIDE DEF p, r, v
  <2>7. QED BY <2>1, <2>4, <2>5, <2>6, ReviewsStep
<1>8. ASSUME NEW h \in handlers, StoreConfirmation(h) \/ Abort(h) PROVE ReviewsOK'
  BY <1>2, <1>8 DEF StoreConfirmation, Abort, Ended
<1>9. CASE Reviewing
  BY <1>2, <1>3, <1>4, <1>5, <1>6, <1>7, <1>8, <1>9 DEF Reviewing, Cancel
<1>10. CASE Pages
  BY <1>2, <1>10 DEF Pages, PageStep, Submit, Resubmit, Mutate, DomTimer, CloseTab, Navigate, History,
     Activate, Send, workerVars
<1>11. CASE Writes
  BY <1>2, <1>11 DEF Writes, WriteStep, StoreCapture, Authorize, StoreObservation, Lose, ExpireClosed, Delete, Snapshot
<1>12. CASE UNCHANGED vars \/ Tick \/ Crash BY <1>2, <1>12 DEF vars, Tick, Crash, workerVars
<1>13. QED BY <1>9, <1>10, <1>11, <1>12 DEF Next

(* For any tabs, windows and number of reviews: what is saved as the        *)
(* confirmation of a receipt is what the user reviewed, in the context it   *)
(* was reviewed in, whatever happened in between (saveSiteConfirmation).    *)
THEOREM ConfirmationsFaithful == Spec => []ConfirmedWhatWasReviewed
<1>1. Init => ReviewsOK /\ ConfirmedWhatWasReviewed BY DEF Init, ReviewsOK, ConfirmedWhatWasReviewed
<1>2. Typed /\ ReviewsOK /\ ConfirmedWhatWasReviewed /\ [Next]_vars => (ReviewsOK /\ ConfirmedWhatWasReviewed)'
  BY ReviewsKept, ConfirmedKept
<1>3. QED BY <1>1, <1>2, Types, PTL DEF Spec
=============================================================================
