---------------------------- MODULE InvoiceDesk ----------------------------
(***************************************************************************)
(* The parked node of an active credit line, invoice_collect_await: what   *)
(* the SME uploads is read, shown for approval or submitted blank, and the *)
(* webhooks of disbursement and repayment are booked.                      *)
(*                                                                         *)
(* One run of the node is one step, as in OnboardingState: it returns, or  *)
(* raises after some of its effects and is run again with the same payload *)
(* from the same checkpoint.  An upload is the set of its invoices and is  *)
(* its own fingerprint.                                                    *)
(***************************************************************************)
EXTENDS Naturals, Sequences, FiniteSets, SequencesExt

CONSTANTS
    Uploads,       \* the sets of invoices the SME sends
    Unreadable,    \* invoices whose extraction comes back empty
    Events,        \* Phase 1.b webhooks: "disbursed", "repaid", "closed", "due"
    KeptSigs,      \* fingerprints of submitted uploads that are kept (200)
    MaxCards,      \* bound: cards or sheets opened for one invoice
    MaxEvents,     \* bound: webhooks of one kind
    MaxFaults      \* bound: calls that fail and crashes

Invoices == UNION Uploads
NoDraft  == "no draft"

ASSUME UploadsAssumption == \A s \in Uploads : IsFiniteSet(s) /\ s # {}
ASSUME ReadAssumption    == Unreadable \subseteq Invoices
ASSUME EventsAssumption  == Events \subseteq {"disbursed", "repaid", "closed", "due"}
ASSUME DeskBounds        == KeptSigs \in Nat \ {0} /\ {MaxCards, MaxEvents, MaxFaults} \subseteq Nat

VARIABLES
    desk,      \* the invoice fields of OnboardingState, as checkpointed
    inp,       \* the payload of a run that raised, or <<>>
    lodged,    \* submissions the backend has taken, by invoice
    cards,     \* cards and sheets opened for the SME, by invoice
    told,      \* messages about money sent to the SME, by event
    came,      \* webhooks that arrived, by event
    claims,    \* uploads whose in-flight claim has not expired
    recent,    \* the last attempt is younger than the dedupe window
    faults     \* failures so far

vars == <<desk, inp, lodged, cards, told, came, claims, recent, faults>>

Zero(S) == [x \in S |-> 0]
Plus(f, S) == [x \in DOMAIN f |-> IF x \in S THEN f[x] + 1 ELSE f[x]]

NewDesk ==
    [draft |-> NoDraft, batch |-> <<>>, last |-> {}, sigs |-> <<>>, ledger |-> Zero(Invoices),
     booked |-> Zero(Events), outstanding |-> FALSE]

TypeOK ==
    /\ desk.draft \in Invoices \cup {NoDraft}
    /\ Range(desk.batch) \subseteq Invoices
    /\ desk.last \in Uploads \cup {{}}
    /\ Range(desk.sigs) \subseteq Uploads /\ Len(desk.sigs) <= KeptSigs
    /\ \A i \in Invoices : desk.ledger[i] \in Nat /\ lodged[i] \in Nat /\ cards[i] \in Nat
    /\ \A e \in Events : desk.booked[e] \in Nat /\ told[e] \in Nat /\ came[e] \in 0 .. MaxEvents
    /\ desk.outstanding \in BOOLEAN /\ recent \in BOOLEAN
    /\ claims \subseteq Uploads
    /\ faults \in 0 .. MaxFaults

Init ==
    /\ desk = NewDesk /\ inp = <<>>
    /\ lodged = Zero(Invoices) /\ cards = Zero(Invoices)
    /\ told = Zero(Events) /\ came = Zero(Events)
    /\ claims = {} /\ recent = FALSE
    /\ faults = 0

-----------------------------------------------------------------------------
(* A run of the node with payload p: submissions, cards, its state update.   *)

Tolerates(f) == faults + f <= MaxFaults

Shown(S) == (\A i \in S : cards[i] < MaxCards) /\ cards' = Plus(cards, S)

\* took: what the backend takes, show: what a card shows, f: failures it tolerates
Returns(took, show, new, f) ==
    /\ Tolerates(f) /\ faults' = faults + f
    /\ lodged' = Plus(lodged, took) /\ Shown(show)
    /\ desk' = new /\ inp' = <<>>

\* It raises between its effects, or the process dies; it runs again, or waits
\* for the next payload.
Raises(p, took, show, f) ==
    /\ Tolerates(f + 1) /\ faults' = faults + f + 1
    /\ \E part \in SUBSET took : lodged' = Plus(lodged, part)
    /\ Shown(show) \/ UNCHANGED cards
    /\ inp' \in {p, <<>>}
    /\ UNCHANGED desk

Runs(p, took, show, new, f) == Returns(took, show, new, f) \/ Raises(p, took, show, f)

\* The same for an upload, which leaves its time behind when it returns
Works(p, took, show, new, f) ==
    \/ Returns(took, show, new, f) /\ recent' = TRUE
    \/ Raises(p, took, show, f) /\ UNCHANGED recent

\* The payload of the run that raised comes first.
Resumed(p) == inp \in {<<>>, p}

-----------------------------------------------------------------------------
(* Uploads *)

\* attempt_fields, and the fingerprints of what was submitted
Attempted(new, s) == [new EXCEPT !.last = s]

KeepLast(q) == SubSeq(q, IF Len(q) > KeptSigs THEN Len(q) - KeptSigs + 1 ELSE 1, Len(q))

\* Faulty: the fingerprint is not kept.
FaultySigKept(new, s) == new
SigKept(new, s) == [new EXCEPT !.sigs = IF s = {} THEN @ ELSE KeepLast(Append(@, s))]

Ledgered(new, S) == [new EXCEPT !.ledger = Plus(@, S)]

\* Of the calls for the invoices in S, f fail.
Reads(s, f) == {S \in SUBSET (s \ Unreadable) : Cardinality(s \ Unreadable) - Cardinality(S) = f}
Takes(S, f) == {T \in SUBSET S : Cardinality(S) - Cardinality(T) = f}

\* No token, or no bytes: the SME is told to send it again.
NotReceived(p, s, f) == Works(p, {}, {}, Attempted(desk, s), f + 1)

\* _invoice_submit_first, for a file that could not be read
SubmitFirst(p, s, f) ==
    \/ Works(p, s, {}, SigKept(Ledgered(Attempted(desk, s), s), s), f)
    \/ Works(p, {}, {}, Attempted(desk, s), f + 1)

\* Faulty: every file is submitted as it comes.
FaultyExtractSingle(p, s, f) == SubmitFirst(p, s, f)

\* _invoice_extract_then_route_single: a card for what was read
ExtractSingle(p, s, f) ==
    \/ NotReceived(p, s, f)
    \/ \E i \in s \ Unreadable : Works(p, {}, s, [Attempted(desk, s) EXCEPT !.draft = i], f)
    \/ s \subseteq Unreadable /\ SubmitFirst(p, s, f)
    \/ ~(s \subseteq Unreadable) /\ SubmitFirst(p, s, f + 1)

\* _invoice_extract_then_route_bulk: one sheet, the unread ones as empty rows at
\* its end; when nothing was read, all are submitted blank.
BlankBulk(p, s, f) ==
    \E g \in 0 .. Cardinality(s) : \E took \in Takes(s, g) :
        Works(p, took, {}, IF took = {} THEN Attempted(desk, s)
                                        ELSE SigKept(Ledgered(Attempted(desk, s), took), s), f + g)

ExtractBulk(p, s, f) ==
    \/ NotReceived(p, s, f)
    \/ \E g \in 0 .. Cardinality(s) : \E read \in Reads(s, g) :
           \/ /\ read # {}
              /\ Works(p, {}, s, [Attempted(desk, s) EXCEPT
                                      !.batch = SetToSeq(read) \o SetToSeq(s \ read)], f + g)
           \/ read = {} /\ BlankBulk(p, s, f + g)

Quiet == Returns({}, {}, desk, 0)

\* The guards in front of the work: the attempt just made, what the run has
\* submitted, the in-flight claim (won when Redis cannot be asked).
Fresh(s) == ~(recent /\ desk.last = s) /\ s \notin Range(desk.sigs)

Upload(s) ==
    LET p == <<"upload", s>>
    IN  /\ Resumed(p)
        /\ \/ /\ ~Fresh(s) \/ s \in claims
              /\ Quiet /\ UNCHANGED <<claims, recent>>
           \/ \E f \in {0, 1} :
                 /\ Fresh(s) /\ (s \notin claims \/ f = 1)
                 /\ claims' = IF f = 1 THEN claims ELSE claims \cup {s}
                 /\ IF Cardinality(s) = 1 THEN ExtractSingle(p, s, f) ELSE ExtractBulk(p, s, f)
        /\ UNCHANGED <<told, came>>

-----------------------------------------------------------------------------
(* The card of a single invoice *)

NoCard(new) == [new EXCEPT !.draft = NoDraft]

\* _invoice_submit_confirmed: the fingerprint it keeps is that of the last upload.
SubmitConfirmed(p) ==
    \/ Runs(p, {desk.draft}, {}, SigKept(Ledgered(NoCard(desk), {desk.draft}), desk.last), 0)
    \/ Runs(p, {}, {}, NoCard(desk), 1)

\* Approve, edit a named field, ask which field, reject; "go" also means all.
ConfirmActions == {"approve", "go", "edit", "edit which", "reject"}
BatchActions   == {"approve all", "go", "reject all"}

Confirm(a) ==
    LET p == <<a>>
    IN  /\ desk.draft # NoDraft
        /\ Resumed(p)
        /\ \/ a \in {"approve", "go"} /\ SubmitConfirmed(p)
           \/ a \in {"edit", "edit which"} /\ Runs(p, {}, {}, desk, 0)
           \/ a = "reject" /\ Runs(p, {}, {}, NoCard(desk), 0)
        /\ UNCHANGED <<told, came, claims, recent>>

-----------------------------------------------------------------------------
(* The sheet of several *)

Cleared(new) == [new EXCEPT !.batch = <<>>]
Rows         == DOMAIN desk.batch

\* Faulty: every row counts as submitted.
FaultySubmitAll(p, rows) ==
    \E g \in 0 .. Cardinality(rows) : \E took \in Takes(rows, g) :
        Runs(p, took, {}, SigKept(Ledgered(Cleared(desk), rows), desk.last), g)

\* _invoice_batch_submit_all: the sheet is closed and its fingerprint kept,
\* whatever became of its rows; without a token it is only closed.
SubmitAll(p, rows) ==
    \/ \E g \in 0 .. Cardinality(rows) : \E took \in Takes(rows, g) :
           Runs(p, took, {}, SigKept(Ledgered(Cleared(desk), took), desk.last), g)
    \/ Runs(p, {}, {}, Cleared(desk), 1)

\* _remove_batch_row: the others are numbered anew
RemoveRow(q, n) == [r \in 1 .. Len(q) - 1 |-> IF r < n THEN q[r] ELSE q[r + 1]]

BatchAction(a) ==
    LET p == <<a>>
    IN  /\ desk.batch # <<>>
        /\ a = "go" => desk.draft = NoDraft
        /\ Resumed(p)
        /\ \/ a \in {"approve all", "go"} /\ SubmitAll(p, Range(desk.batch))
           \/ a = "reject all" /\ Runs(p, {}, {}, Cleared(desk), 0)
        /\ UNCHANGED <<told, came, claims, recent>>

\* "remove 3"; a row there is not leaves the sheet as it is
BatchRemove(n) ==
    LET p   == <<"remove", n>>
        new == [desk EXCEPT !.batch = IF n \in Rows THEN RemoveRow(@, n) ELSE @]
    IN  /\ desk.batch # <<>>
        /\ Resumed(p)
        /\ Runs(p, {}, {}, new, 0)
        /\ UNCHANGED <<told, came, claims, recent>>

\* "edit 2: amount 5"; a pending card takes the words first
BatchEdit ==
    LET p == <<"edit row">>
    IN  /\ desk.batch # <<>> /\ desk.draft = NoDraft
        /\ Resumed(p)
        /\ Runs(p, {}, {}, desk, 0)
        /\ UNCHANGED <<told, came, claims, recent>>

\* _handle_edited_csv: the rows the SME sent back (blocks may be gone); a file
\* that cannot be read is answered with help.
EditedSheet(rows) ==
    LET p == <<"sheet", rows>>
    IN  /\ desk.batch # <<>> /\ rows \subseteq Rows
        /\ Resumed(p)
        /\ \/ rows = {} /\ Runs(p, {}, {}, desk, 0)
           \/ rows # {} /\ SubmitAll(p, {desk.batch[r] : r \in rows})
        /\ UNCHANGED <<told, came, claims, recent>>

-----------------------------------------------------------------------------
(* Phase 1.b webhooks *)

Booked(e) ==
    [desk EXCEPT !.booked[e] = IF e = "due" THEN @ ELSE @ + 1,
                 !.outstanding = CASE e = "repaid" -> TRUE [] e = "closed" -> FALSE [] OTHER -> @]

\* Faulty: booked, and told only where the SME asks.
FaultyTells(e) == UNCHANGED told
Tells(e) == told' = [told EXCEPT ![e] = @ + 1]

\* _apply_phase1b_event_to_state: the message goes out, then the booking is saved.
Phase1bEvent(e) ==
    LET p == <<"event", e>>
    IN  /\ Resumed(p)
        /\ IF inp = p THEN UNCHANGED came
                      ELSE came[e] < MaxEvents /\ came' = [came EXCEPT ![e] = @ + 1]
        /\ \/ Returns({}, {}, Booked(e), 0) /\ Tells(e)
           \/ Raises(p, {}, {}, 0) /\ (Tells(e) \/ UNCHANGED told)
        /\ UNCHANGED <<claims, recent>>

\* Ticks of the poller and other webhooks park again without a word.
Chat ==
    /\ inp = <<>>
    /\ Quiet
    /\ UNCHANGED <<told, came, claims, recent>>

\* Limit, disbursements, dues: a backend that does not answer is tolerated.
Asks ==
    \E f \in {0, 1} :
        /\ Resumed(<<"ask">>)
        /\ Runs(<<"ask">>, {}, {}, desk, f)
        /\ UNCHANGED <<told, came, claims, recent>>

-----------------------------------------------------------------------------
(* Time.  The claim (600 s) outlives the window (300 s). *)

WindowPasses ==
    /\ recent /\ recent' = FALSE
    /\ UNCHANGED <<desk, inp, lodged, cards, told, came, claims, faults>>

ClaimExpires(s) ==
    /\ s \in claims /\ ~(recent /\ desk.last = s)
    /\ claims' = claims \ {s}
    /\ UNCHANGED <<desk, inp, lodged, cards, told, came, recent, faults>>

Next ==
    \/ \E s \in Uploads : Upload(s) \/ ClaimExpires(s)
    \/ \E a \in ConfirmActions : Confirm(a)
    \/ \E a \in BatchActions : BatchAction(a)
    \/ \E n \in 1 .. Cardinality(Invoices) : BatchRemove(n)
    \/ \E rows \in SUBSET (1 .. Cardinality(Invoices)) : EditedSheet(rows)
    \/ \E e \in Events : Phase1bEvent(e)
    \/ BatchEdit \/ Chat \/ Asks \/ WindowPasses

Spec == Init /\ [][Next]_vars

-----------------------------------------------------------------------------
(* Properties *)

Most(m, n) == IF m > n THEN m ELSE n

\* An invoice is submitted once, or once for each card or sheet opened for it,
\* and once more for each failure, however often the upload, the approval or
\* the run of the node is repeated (the dedupe window, the fingerprints of the
\* run, the in-flight claim, the closing of the card).
LodgedOnce == \A i \in Invoices : lodged[i] <= Most(1, cards[i]) + faults

\* The run's own list and the backend's differ by failures only: a row that the
\* backend did not take is not listed (invoices_submitted).
LedgerBacked ==
    \A i \in Invoices : desk.ledger[i] <= lodged[i] /\ lodged[i] <= desk.ledger[i] + faults

\* The ledger and the types of the node's state together: what the list, the
\* batch and the fingerprints are made of, and that the list is the backend's
\* (invoice_collect_await).
LedgerInv == TypeOK /\ LedgerBacked

\* What could be read is not submitted unseen: the SME has had a card or a sheet
\* first, unless its extraction failed.
NotUnseen == \A i \in Invoices \ Unreadable : lodged[i] > 0 => cards[i] > 0 \/ faults > 0

\* What is booked was announced, and nothing is announced twice without a failure.
MoneyTold ==
    \A e \in Events \ {"due"} : desk.booked[e] <= told[e] /\ told[e] <= desk.booked[e] + faults

=============================================================================
