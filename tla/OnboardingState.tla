-------------------------- MODULE OnboardingState --------------------------
(***************************************************************************)
(* The state of one onboarding run and what its nodes have in common.      *)
(*                                                                         *)
(* A node of the graph and the conditional edge behind it are one action:  *)
(* the runtime checkpoints after a node returns, so what a node did to the *)
(* world outside (backend, reminders, messages, claims) may have happened  *)
(* although its state update has not.  RunsTo and Raises say this once for *)
(* all nodes.  A parked node is resumed with a payload: what the SME sent, *)
(* a backend webhook, or a tick of the poller.  Webhooks and ticks wait in *)
(* mail and reach whatever node is parked by then, in any order.           *)
(***************************************************************************)
EXTENDS Naturals, FiniteSets

CONSTANTS
    Channels,      \* the channels a run may come in on
    Docs,          \* the required documents
    Returning,     \* the journey statuses a returning SME may be in
    MaxOffers,     \* bound: offers the lenders make
    MaxLate,       \* bound: webhooks that come late or again
    MaxMail,       \* bound: webhooks and ticks under way at once
    Beyond,        \* bound: the nodes an instance does not follow the run into
    MaxSaid,       \* bound: messages of one template that are told apart
    MaxFaults      \* bound: calls that fail and crashes

ASSUME ChannelsAssumption == Channels \subseteq {"whatsapp", "email"}
ASSUME BoundsAssumption   == {MaxOffers, MaxLate, MaxMail, MaxSaid, MaxFaults} \subseteq Nat
ASSUME DocsAssumption     == IsFiniteSet(Docs) /\ Docs # {}

VARIABLES
    at,       \* the node that runs next, or is parked
    inp,      \* the payload a parked node is being retried with
    st,       \* the fields of OnboardingState, as checkpointed
    world,    \* the Madad backend, and the time since offers were first seen
    mail,     \* webhooks and ticks under way to the run
    rem,      \* reasons of the reminder sequences that are active
    said,     \* messages sent so far, by template
    claims,   \* Redis claims that have not expired
    files,    \* files a node accepted from the SME
    faults    \* failures so far

vars == <<at, inp, st, world, mail, rem, said, claims, files, faults>>

-----------------------------------------------------------------------------
(* Journey statuses, payloads, nodes *)

Settled        == {"ACCEPTED", "OFFER_ACCEPTED", "ACTIVATED"}
QualifiedPlus  == Settled \cup {"QUALIFIED"}
Documenting    == {"INCOMPLETE", "UNVERIFIED", "VERIFIED", "PRE_QUALIFIED"}
JourneyStatuses ==
    QualifiedPlus \cup Documenting
    \cup {"SIGN_UP", "ONBOARDED", "ELIGIBLE", "IN_ELIGIBLE", "UNQUALIFIED", "NOT_ACCEPTED",
          "OFFER_EXPIRED", "OPEN"}

ASSUME ReturningAssumption == Returning \subseteq JourneyStatuses

\* EVENT_TO_JOURNEY_STATUS: the status a webhook implies
EventStatus ==
    [prequal |-> "PRE_QUALIFIED", score |-> "QUALIFIED", offers |-> "ACCEPTED",
     selected |-> "OFFER_ACCEPTED", activated |-> "ACTIVATED"]

StatusEvents == DOMAIN EventStatus
FeeEvents    == {"paid", "waived"}
Webhooks     == StatusEvents \cup FeeEvents \cup {"rejected"}
Ticks        == {"poll", "settle"}
Synthetic    == Webhooks \cup Ticks

\* A document is neither a webhook nor a tick.
ASSUME NamesAssumption == Docs \cap Synthetic = {}

\* _extract_journey_status and _extract_status_source of a payload
StatusIn(p) == IF p \in StatusEvents THEN EventStatus[p] ELSE "NONE"
SourceOf(p) == IF p \in Webhooks THEN "webhook" ELSE "poll"

NoInput  == "none"
Pollable == {"journey_wait_await", "lender_wait_await", "payment_await"}

-----------------------------------------------------------------------------
(* The fields of the state a property or an edge tells apart *)

NewState ==
    [registered |-> FALSE, reg_offers |-> 0, contact |-> "none", token |-> FALSE, has_email |-> FALSE,
     cr_ref |-> FALSE, cr_reject_count |-> 0, financials_received |-> FALSE, extras |-> {},
     missing |-> {}, uploaded |-> FALSE, acked |-> FALSE, settle_prompted |-> FALSE, prompt_sig |-> {},
     proceed |-> FALSE, complete_sent |-> FALSE, ready |-> FALSE, paid |-> FALSE,
     status |-> "NONE", source |-> "none", step |-> 0, business |-> FALSE, product |-> FALSE,
     link |-> FALSE, confirmed_sent |-> FALSE, offers |-> 0, preview |-> MaxOffers + 1,
     offer_confirmed_sent |-> FALSE]

Nothing ==
    [prompt |-> 0, complete |-> 0, confirmed |-> 0,
     offer_confirmed |-> 0, activated |-> 0, unasked |-> 0, preview |-> [n \in 0 .. MaxOffers |-> 0]]

Extras == {"with_cr", "with_financials", "additional"}

TypeOK ==
    /\ inp \in Docs \cup Synthetic \cup {NoInput, "file", "files", "again", "more", "done",
                                          "no", "yes", "address", "ask", "free"}
    /\ st.status \in JourneyStatuses \cup {"NONE"}
    /\ st.source \in {"none", "poll", "webhook", "chat"}
    /\ st.missing \subseteq Docs /\ st.prompt_sig \subseteq Docs
    /\ st.extras \subseteq Extras
    /\ st.cr_reject_count \in 0 .. 2
    /\ st.step \in 0 .. 8 /\ world.step \in 0 .. 8
    /\ st.offers \in 0 .. MaxOffers /\ st.preview \in 0 .. MaxOffers + 1
    /\ world.status \in JourneyStatuses /\ world.offers \in 0 .. MaxOffers
    /\ world.saved \subseteq Docs \cup Extras \cup {"cr", "fin"}
    /\ mail \subseteq Synthetic
    /\ rem \subseteq {"financials_pending", "incomplete_docs", "payment_pending"}
    /\ claims \subseteq Docs \cup {"checklist", "settle"}
    /\ faults \in 0 .. MaxFaults

\* The backend before the run: nobody there, or a returning SME
NewLead(ch) ==
    [channel |-> ch, registered |-> FALSE, status |-> "SIGN_UP", fee |-> FALSE, offers |-> 0,
     payment |-> FALSE, saved |-> {}, step |-> 0, window |-> "none", late |-> 0]

Returned(ch, s, paid, n) ==
    [NewLead(ch) EXCEPT !.registered = TRUE, !.status = s, !.fee = paid, !.offers = n]

ReturningLeads(ch) ==
    {Returned(ch, s, paid, n) : s \in Returning, paid \in BOOLEAN, n \in 0 .. MaxOffers}

Plausible(w) ==
    /\ w.status \in Settled \cup {"NOT_ACCEPTED", "OFFER_EXPIRED"} => w.fee
    /\ w.fee => w.status \in QualifiedPlus \cup {"NOT_ACCEPTED", "OFFER_EXPIRED", "OPEN"}
    /\ (w.offers > 0) <=> w.status \in Settled \cup {"OFFER_EXPIRED"}

Init ==
    /\ at = "entry_registration_check"
    /\ inp = NoInput
    /\ st = NewState
    /\ world \in UNION {{NewLead(ch)} \cup {w \in ReturningLeads(ch) : Plausible(w)} : ch \in Channels}
    /\ mail = {} /\ rem = {} /\ claims = {} /\ files = {}
    /\ said = Nothing
    /\ faults = 0

-----------------------------------------------------------------------------
(* Running a node *)

Capped(n)   == IF n < MaxSaid THEN n + 1 ELSE n
Says(t)     == [said EXCEPT ![t] = Capped(@)]
SaysTwo(t, u) == [said EXCEPT ![t] = Capped(@), ![u] = Capped(@)]

At(n) == at = n /\ n \notin Beyond

\* f calls failed that the node tolerates
Tolerates(f) == faults + f <= MaxFaults

\* The node returns: its effects, its state update, the edge it takes.
RunsTo(next, new, w, r, s, f) ==
    /\ Tolerates(f) /\ faults' = faults + f
    /\ world' = w /\ rem' = r /\ said' = s
    /\ st' = new /\ at' = next /\ inp' = NoInput

\* It raises, or the process dies, between two of its effects.  The runtime runs
\* the node again with the same payload, and when its retries are used up the
\* run waits for the next payload to revive it.
Raises(p, w, r, s, f) ==
    /\ Tolerates(f + 1) /\ faults' = faults + f + 1
    /\ \E done \in {<<world, rem, said>>, <<w, rem, said>>, <<w, r, said>>, <<w, rem, s>>, <<w, r, s>>} :
           world' = done[1] /\ rem' = done[2] /\ said' = done[3]
    /\ inp' \in {p, NoInput}
    /\ UNCHANGED <<st, at>>

\* A node that waits for nothing
Node(n, next, new, w, r, s, f) ==
    /\ At(n)
    /\ \/ RunsTo(next, new, w, r, s, f)
       \/ Raises(NoInput, w, r, s, f)
    /\ UNCHANGED <<mail, claims, files>>

\* A node that only updates the state and follows its edge
Pure(n, next, new, f) == Node(n, next, new, world, rem, said, f)

\* Something is on its way to the run.
Posts(e) == Cardinality(mail \cup {e}) <= MaxMail /\ mail' = mail \cup {e}

\* await_input: the retried payload, a fresh one from the SME, or one under way
Resumed(n, p, fromSme) ==
    /\ At(n)
    /\ IF inp # NoInput THEN p = inp /\ UNCHANGED mail
                        ELSE /\ p \in fromSme \cup mail
                             /\ mail' = mail \ {p}

\* The rest of a resumed node; got are the files it took over from the SME.
Then(p, next, new, w, r, s, f, got) ==
    \/ RunsTo(next, new, w, r, s, f) /\ files' = files \cup got
    \/ Raises(p, w, r, s, f) /\ UNCHANGED files

\* It answers or keeps still, and parks again.
Reparks(new) == RunsTo(at, new, world, rem, said, 0) /\ UNCHANGED <<claims, files>>

\* An off-script answer; counted when nobody asked
Answers(p, new) ==
    /\ RunsTo(at, new, world, rem, IF p \in Ticks THEN Says("unasked") ELSE said, 0)
    /\ UNCHANGED <<claims, files>>

-----------------------------------------------------------------------------
(* Tokens, progress and polling *)

\* _live_token: a minted token (f = 0), or the one at hand when minting fails
LiveToken(f) == f = 0 \/ st.token

\* Faulty: a step that is behind is sent as well.
FaultyTracks(n) == world.channel = "whatsapp"

\* _update_progress: skipped for email and for a step that is not ahead; a
\* failure is tolerated.  The backend keeps what it is told last.
Tracks(n)      == world.channel = "whatsapp" /\ n > st.step
Progressed(w, n, f)  == IF Tracks(n) /\ f = 0 THEN [w EXCEPT !.step = n] ELSE w
ProgressFaults(n)    == IF Tracks(n) THEN {0, 1} ELSE {0}
Recorded(new, n, f)  == IF Tracks(n) /\ f = 0 THEN [new EXCEPT !.step = n] ELSE new

\* _poll_journey_status: a status that a webhook brought is trusted
PolledStatus(token) ==
    IF (st.source = "webhook" /\ st.status # "NONE") \/ ~token THEN st.status ELSE world.status

\* _drain_pending_extras: each stashed file is saved, or kept for a retry.
Drained(w, kept)   == [w EXCEPT !.saved = @ \cup (st.extras \ kept)]
DrainFaults(kept)  == IF kept = {} THEN 0 ELSE 1

\* _capture_additional_documents at an idle wait; a file that cannot be saved
\* makes the node raise.
CapturesAdditional(p) ==
    /\ \E kept \in SUBSET st.extras :
           Then(p, at, [st EXCEPT !.extras = kept],
                Drained([world EXCEPT !.saved = @ \cup {"additional"}], kept), {}, said,
                DrainFaults(kept), {"additional"})
    /\ UNCHANGED claims

=============================================================================
