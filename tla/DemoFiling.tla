----------------------------- MODULE DemoFiling -----------------------------
(***************************************************************************)
(* apps/web/lib/demo/service.ts: the fictional authority that processes a  *)
(* filing when somebody asks for it after its delay, and that signs one    *)
(* receipt event for each decided filing.  A request reads the clock, then *)
(* runs one or two database transactions; other requests, the clock and a  *)
(* reset of the test data come in between.                                 *)
(*                                                                         *)
(* A filing is known by its lookup token.  A proposed event core is its    *)
(* event (which names its receipt) and the acknowledgment it repeats; the  *)
(* reason is a function of the outcome.  Left out: the form's fields, the  *)
(* status history and version (nothing reads them), and the signature's    *)
(* own arithmetic.  A reference drawn twice violates its unique constraint *)
(* and ends the request, which is Fail.                                    *)
(***************************************************************************)
EXTENDS Integers

CONSTANTS
  Tokens,       \* lookup tokens drawn
  References,   \* authority references drawn
  Events,       \* the authority events clients propose
  Receipt,      \* Receipt[x]: the receipt event x belongs to
  Workers,      \* requests in flight at the same time
  Delay,        \* processingDelayMs
  MaxTime       \* bound: where the clock stops

ASSUME FilingAssumption == Delay \in Nat /\ MaxTime \in Nat

VARIABLES
  filing,       \* demo_submissions, by token
  signature,    \* demo_authority_signatures, by token: the signed event
  clock,
  job,          \* what each request is doing
  shown,        \* history: acknowledgments shown to clients since the last reset
  given         \* history: signed events returned to clients since the last reset

vars == <<filing, signature, clock, job, shown, given>>

Outcomes == {"ACCEPTED", "REJECTED"}
Scenarios == Outcomes \cup {"PENDING"}
NoAck == [outcome |-> "NONE"]
NoFiling == [status |-> "NONE"]     \* a token not drawn yet
GoneFiling == [status |-> "GONE"]   \* a token whose filing was reset
NoEvent == [event |-> "NONE"]
Idle == [pc |-> "idle"]

At(w, pc) == job[w].pc = pc
Return(w) == job' = [job EXCEPT ![w] = Idle]
Exists(t) == filing[t].status \notin {"NONE", "GONE"}
Acks == {filing[t].ack : t \in {u \in Tokens : Exists(u)}}

Show(t, ack) ==
  shown' = IF ack = NoAck THEN shown ELSE shown \cup {[token |-> t, ack |-> ack]}

\* createSubmission.
CreateSubmission(t, scenario) ==
  /\ filing[t] = NoFiling
  /\ clock + Delay <= MaxTime
  /\ filing' = [filing EXCEPT ![t] = [status |-> "QUEUED", scenario |-> scenario,
                                      ready |-> clock + Delay, ack |-> NoAck]]
  /\ UNCHANGED <<signature, clock, job, shown, given>>

\* readSubmission: the page shows what is stored and processes nothing.
ReadSubmission(t) ==
  /\ Exists(t)
  /\ Show(t, filing[t].ack)
  /\ UNCHANGED <<filing, signature, clock, job, given>>

\* getSubmission, alone or as the first part of signTerminalAcknowledgment,
\* reads the clock before its transaction begins.
Start(w, t, kind) ==
  /\ At(w, "idle")
  /\ filing[t] # NoFiling
  /\ job' = [job EXCEPT ![w] = [pc |-> "process", token |-> t, kind |-> kind, now |-> clock]]
  /\ UNCHANGED <<filing, signature, clock, shown, given>>

\* A queued filing is due when its delay had passed at the time read.
DueAgain(t, now) == now >= filing[t].ready                              \* broken: any status
Due(t, now) == filing[t].status = "QUEUED" /\ now >= filing[t].ready

\* The row of a filing processed at a time: pending for good, or decided with a
\* new reference.
Processed(t, now, ref) ==
  LET s == filing[t].scenario IN
  IF s = "PENDING" THEN [filing[t] EXCEPT !.status = s]
  ELSE [filing[t] EXCEPT !.status = s, !.ack = [outcome |-> s, reference |-> ref, time |-> now]]

\* The transaction of getSubmission, which holds the lock of the row.
Process(t, now) ==
  \/ /\ Exists(t) /\ Due(t, now)
     /\ \E ref \in References :
          /\ \A a \in Acks : a # NoAck => a.reference # ref
          /\ filing' = [filing EXCEPT ![t] = Processed(t, now, ref)]
  \/ /\ ~(Exists(t) /\ Due(t, now))
     /\ UNCHANGED filing

\* getSubmission answers with the row it stored or found.
GetSubmission(w) ==
  LET t == job[w].token IN
  /\ At(w, "process") /\ job[w].kind = "get"
  /\ Process(t, job[w].now)
  /\ IF Exists(t) THEN Show(t, filing'[t].ack) ELSE UNCHANGED shown
  /\ Return(w)
  /\ UNCHANGED <<signature, clock, given>>

\* The comparison of a proposed core with the stored acknowledgment.
MatchesOutcome(core, ack) == core.ack.outcome = ack.outcome   \* broken: only the stage compared
Matches(core, ack) == core.ack = ack

\* What clients may propose: any event under any acknowledgment.
Proposals ==
  [event : Events, ack : [outcome : Outcomes, reference : References, time : 0..MaxTime]]

\* signTerminalAcknowledgment up to its own transaction: the filing is processed
\* as above and the proposed core, which nothing has looked at before, compared.
CheckCore(w) ==
  LET t == job[w].token IN
  /\ At(w, "process") /\ job[w].kind = "sign"
  /\ Process(t, job[w].now)
  /\ \/ \E core \in Proposals :
          /\ filing'[t].status \in Outcomes /\ Matches(core, filing'[t].ack)
          /\ job' = [job EXCEPT ![w] = [pc |-> "bind", token |-> t, core |-> core]]
     \/ Return(w)
  /\ UNCHANGED <<signature, clock, shown, given>>

\* No other filing's signature has the receipt (or the event): UNIQUE (receipt_id).
SignedTokens == {u \in Tokens : signature[u] # NoEvent}
FreeEvent(t, core) ==                                   \* broken: only UNIQUE (event_hash)
  \A u \in SignedTokens \ {t} : signature[u] # core
FreeReceipt(t, core) ==
  \A u \in SignedTokens \ {t} : Receipt[signature[u].event] # Receipt[core.event]

\* The signing transaction, under the lock of the row: a filing that was signed
\* before answers only its own event; another receipt's filing is refused.
BindAnswered(w) ==
  LET t == job[w].token
      core == job[w].core IN
  /\ At(w, "bind")
  /\ IF ~Exists(t) THEN UNCHANGED <<signature, given>>
     ELSE IF signature[t] # NoEvent
     THEN /\ given' = IF signature[t] = core THEN given \cup {[token |-> t, core |-> core]} ELSE given
          /\ UNCHANGED signature
     ELSE IF FreeReceipt(t, core)
     THEN /\ signature' = [signature EXCEPT ![t] = core]
          /\ given' = given \cup {[token |-> t, core |-> core]}
     ELSE UNCHANGED <<signature, given>>
  /\ Return(w)
  /\ UNCHANGED <<filing, clock, shown>>

\* The transaction commits and its answer is lost.
BindUnanswered(w) ==
  LET t == job[w].token
      core == job[w].core IN
  /\ At(w, "bind")
  /\ Exists(t) /\ signature[t] = NoEvent /\ FreeReceipt(t, core)
  /\ signature' = [signature EXCEPT ![t] = core]
  /\ Return(w)
  /\ UNCHANGED <<filing, clock, shown, given>>

\* A database error or the end of the instance, anywhere.
Fail(w) ==
  /\ ~At(w, "idle")
  /\ Return(w)
  /\ UNCHANGED <<filing, signature, clock, shown, given>>

Tick ==
  /\ clock < MaxTime
  /\ clock' = clock + 1
  /\ UNCHANGED <<filing, signature, job, shown, given>>

\* resetForTests: the tables are emptied while requests run.
ResetForTests ==
  /\ \E t \in Tokens : Exists(t)
  /\ filing' = [t \in Tokens |-> IF Exists(t) THEN GoneFiling ELSE filing[t]]
  /\ signature' = [t \in Tokens |-> NoEvent]
  /\ shown' = {} /\ given' = {}
  /\ UNCHANGED <<clock, job>>

Init ==
  /\ filing = [t \in Tokens |-> NoFiling]
  /\ signature = [t \in Tokens |-> NoEvent]
  /\ clock = 0
  /\ job = [w \in Workers |-> Idle]
  /\ shown = {} /\ given = {}

Work(w) == GetSubmission(w) \/ CheckCore(w) \/ BindAnswered(w)

Next ==
  \/ \E t \in Tokens : ReadSubmission(t) \/ \E s \in Scenarios : CreateSubmission(t, s)
  \/ \E w \in Workers :
       \/ \E t \in Tokens, kind \in {"get", "sign"} : Start(w, t, kind)
       \/ Work(w) \/ BindUnanswered(w) \/ Fail(w)
  \/ Tick
  \/ ResetForTests

Spec == Init /\ [][Next]_vars

-----------------------------------------------------------------------------
(* Properties *)

Ack == [outcome : Outcomes, reference : References, time : 0..MaxTime]
UndecidedFiling ==
  [status : {"QUEUED", "PENDING"}, scenario : Scenarios, ready : Nat, ack : {NoAck}]
DecidedFiling == [status : Outcomes, scenario : Scenarios, ready : Nat, ack : Ack]
WaitingJob == [pc : {"process"}, token : Tokens, kind : {"get", "sign"}, now : 0..MaxTime]
BindingJob == [pc : {"bind"}, token : Tokens, core : Proposals]

\* Every variable has its type, and a filing satisfies the check
\* demo_submission_outcome_consistency: an acknowledgment just when decided.
TypeOK ==
  /\ filing \in [Tokens -> {NoFiling, GoneFiling} \cup UndecidedFiling \cup DecidedFiling]
  /\ \A t \in Tokens : filing[t].status \in Outcomes => filing[t].ack.outcome = filing[t].status
  /\ signature \in [Tokens -> {NoEvent} \cup Proposals]
  /\ clock \in 0..MaxTime
  /\ job \in [Workers -> {Idle} \cup WaitingJob \cup BindingJob]
  /\ shown \subseteq [token : Tokens, ack : Ack]
  /\ given \subseteq [token : Tokens, core : Proposals]

\* However many requests process a filing at once, with clocks read at different
\* times, every client is shown the same acknowledgment, the stored one.
AcknowledgmentIsFinal ==
  \A s \in shown : Exists(s.token) /\ filing[s.token].ack = s.ack

\* The events returned as signed bind filings and receipts one to one: a retry
\* gets the event signed first, and no receipt is acknowledged for two filings.
BindingOneToOne ==
  \A g, h \in given :
    /\ g.token = h.token => g = h
    /\ Receipt[g.core.event] = Receipt[h.core.event] => g.token = h.token

\* A signed event repeats the acknowledgment stored for its filing, although the
\* two are compared before the transaction that signs, and the signature is kept.
SignedIsTrue ==
  \A g \in given :
    /\ Exists(g.token) /\ g.core.ack = filing[g.token].ack
    /\ signature[g.token] = g.core

\* The trigger demo_submission_outcome_immutable: a pending or decided filing is
\* never updated.
OutcomesObeyTrigger ==
  [][\A t \in Tokens : filing[t].status \in Scenarios =>
        filing'[t] \in {filing[t], GoneFiling}]_vars
=============================================================================
