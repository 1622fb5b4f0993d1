---------------------------- MODULE FundingPhase ----------------------------
(***************************************************************************)
(* The funding half of the graph: the fee, the lenders' answer, the        *)
(* offers, and the activation of the credit line.                          *)
(***************************************************************************)
EXTENDS DocumentsPhase

-----------------------------------------------------------------------------
(* The fee *)

\* No token, or a backend without business details, leaves the id unset.
BusinessDetailsFetch ==
    \E b \in BOOLEAN :
        Pure("business_details_fetch", "products_list_fetch", [st EXCEPT !.business = b, !.token = TRUE], 0)

\* Only an ACTIVE product that the SME is charged for will do.
ProductsListFetch ==
    \E b \in BOOLEAN :
        Pure("products_list_fetch", "payment_create", [st EXCEPT !.product = b, !.token = TRUE], 0)

\* The key is the same for every attempt of the run, so the backend keeps one payment.
PaymentCreate ==
    \/ /\ st.business /\ st.product
       /\ Node("payment_create", "payment_send_link", [st EXCEPT !.link = TRUE],
               [world EXCEPT !.payment = TRUE], rem, said, 0)
    \/ ~(st.business /\ st.product) /\ Pure("payment_create", "payment_send_link", st, 0)

\* The request goes out whether or not there is a link.  The recorded step is
\* not written back.
PaymentSendLink ==
    \E f \in ProgressFaults(6) :
        Node("payment_send_link", "payment_await", st, Progressed(world, 6, f),
             rem \cup {"payment_pending"}, said, f)

\* What /me says about the fee
FeeCleared == world.fee \/ world.status \in Settled \cup {"OPEN"}

RoutePayment(s) == IF s.paid THEN "lender_status_poll" ELSE "payment_await"

\* payment.completed: confirmed once.
ConfirmsPayment(p) ==
    LET new == [st EXCEPT !.paid = TRUE]
    IN  /\ p = "paid"
        /\ IF st.confirmed_sent
           THEN Then(p, RoutePayment(new), new, world, {}, said, 0, {})
           ELSE \E f \in ProgressFaults(7) :
                    Then(p, RoutePayment(new), [new EXCEPT !.confirmed_sent = TRUE],
                         Progressed(world, 7, f), {}, Says("confirmed"), f, {})
        /\ UNCHANGED claims

\* A waiver, or a status that implies one: the backend has told the SME.
FeeWaived(p) ==
    LET new == [st EXCEPT !.paid = TRUE, !.source = "webhook",
                          !.status = IF p = "waived" THEN @ ELSE StatusIn(p)]
    IN  /\ p = "waived" \/ StatusIn(p) \in Settled
        /\ RunsTo(RoutePayment(new), new, world, rem, said, 0)
        /\ UNCHANGED <<claims, files>>

\* Faulty: it goes by the status, which a waiver need not change.
FaultyChecksWaiver(p) ==
    /\ p \in {"poll", "prequal", "score", "rejected"}
    /\ IF world.status \in Settled
       THEN RunsTo("lender_status_poll", [st EXCEPT !.paid = TRUE, !.source = "poll"], world, rem, said, 0)
       ELSE RunsTo("payment_await", [st EXCEPT !.paid = FALSE], world, rem, said, 0)
    /\ UNCHANGED <<claims, files>>

\* A status_update without such a status reads /me.
ChecksWaiver(p) ==
    /\ p \in {"poll", "prequal", "score", "rejected"}
    /\ \/ FeeCleared /\ RunsTo("lender_status_poll", [st EXCEPT !.paid = TRUE, !.source = "poll"],
                               world, rem, said, 0)
       \/ ~FeeCleared /\ RunsTo("payment_await", [st EXCEPT !.paid = FALSE], world, rem, said, 0)
       \/ RunsTo("payment_await", [st EXCEPT !.paid = FALSE], world, rem, said, 1)
    /\ UNCHANGED <<claims, files>>

PaymentAwait ==
    \E p \in {"ask"} \cup Synthetic :
        /\ Resumed("payment_await", p, {"ask"})
        /\ \/ p = "ask" /\ Answers(p, [st EXCEPT !.paid = FALSE])
           \/ p = "settle" /\ Reparks([st EXCEPT !.paid = FALSE])
           \/ ConfirmsPayment(p) \/ FeeWaived(p) \/ ChecksWaiver(p)

-----------------------------------------------------------------------------
(* The lenders *)

\* Faulty: a late QUALIFIED bills again.
FaultyRouteJourneyStatus(s, toPay, refused, idle) ==
    CASE s.status \in {"PRE_QUALIFIED", "QUALIFIED"} -> toPay
      [] s.status = "ACCEPTED"                       -> "offers_fetch"
      [] OTHER                                       -> idle

\* The node a status leads to.  toPay: where an unpaid one goes; refused: where
\* an ineligible one goes; idle: the wait.
RouteJourneyStatus(s, toPay, refused, idle) ==
    CASE s.status \in {"PRE_QUALIFIED", "QUALIFIED"}     -> IF s.paid THEN idle ELSE toPay
      [] s.status = "IN_ELIGIBLE"                        -> refused
      [] s.status \in {"UNQUALIFIED", "NOT_ACCEPTED"}    -> "not_qualified"
      [] s.status = "ACCEPTED"                           -> "offers_fetch"
      [] s.status = "OFFER_ACCEPTED"                     -> "offer_confirmed"
      [] s.status = "ACTIVATED"                          -> "activated"
      [] OTHER                                           -> idle

\* Minting a token may fail (f); reading /me raises.
Polls(n, toPay, refused, idle) ==
    \E f \in {0, 1} :
        LET new == [st EXCEPT !.status = PolledStatus(LiveToken(f)), !.token = LiveToken(f),
                              !.source = IF @ = "none" THEN "poll" ELSE @]
        IN  Pure(n, RouteJourneyStatus(new, toPay, refused, idle), new, f)

LenderStatusPoll   == Polls("lender_status_poll", "lender_wait_await", "not_qualified", "lender_wait_await")
StatusPollOnDemand == Polls("status_poll_on_demand", "business_details_fetch", "not_eligible", "journey_wait_await")

\* Chat is answered and parks again; anything else polls.
WaitsForStatus(n, next) ==
    \E p \in {"ask"} \cup Synthetic :
        /\ Resumed(n, p, {"ask"})
        /\ \/ p = "ask" /\ Answers(p, [st EXCEPT !.source = "chat"])
           \/ /\ p \in Synthetic
              /\ RunsTo(next, [st EXCEPT !.source = SourceOf(p),
                                         !.status = IF p \in StatusEvents THEN StatusIn(p) ELSE @],
                        world, rem, said, 0)
              /\ UNCHANGED <<claims, files>>

LenderWaitAwait  == WaitsForStatus("lender_wait_await", "lender_status_poll")
JourneyWaitAwait == WaitsForStatus("journey_wait_await", "status_poll_on_demand")

-----------------------------------------------------------------------------
(* Offers and activation *)

\* The offers of the registration lookup are preferred to /me, however old.
OffersFetch ==
    \E f \in ProgressFaults(8), g \in {0, 1} :
        Node("offers_fetch", "offer_view_send",
             Recorded([st EXCEPT !.offers = IF st.reg_offers > 0 THEN st.reg_offers
                                            ELSE IF g = 0 THEN world.offers ELSE 0], 8, f),
             Progressed(world, 8, f), rem, said, f + g)

\* Faulty: every pass opens the window anew.
ResettingOfferViewSend ==
    Node("offer_view_send", "offer_handoff_to_madad", st, [world EXCEPT !.window = "open"], rem, said, 0)

\* A new set is shown once the window since the first sighting has passed.  (The
\* set is told apart by its size: lenders only add offers.)
OfferViewSend ==
    \/ st.offers = st.preview /\ Pure("offer_view_send", "offer_handoff_to_madad", st, 0)
    \/ /\ st.offers # st.preview /\ world.window = "none"
       /\ At("offer_view_send")
       /\ RunsTo("offer_handoff_to_madad", st, [world EXCEPT !.window = "open"], rem, said, 0)
       /\ UNCHANGED <<mail, claims, files>>
    \/ /\ st.offers # st.preview /\ world.window = "open"
       /\ Pure("offer_view_send", "offer_handoff_to_madad", st, 0)
    \/ /\ st.offers # st.preview /\ world.window = "passed"
       /\ Node("offer_view_send", "offer_handoff_to_madad", [st EXCEPT !.preview = st.offers], world, rem,
               [said EXCEPT !.preview[st.offers] = Capped(@)], 0)

WindowPasses ==
    /\ world.window = "open"
    /\ world' = [world EXCEPT !.window = "passed"]
    /\ UNCHANGED <<at, inp, st, mail, rem, said, claims, files, faults>>

OfferHandoffToMadad == Pure("offer_handoff_to_madad", "journey_wait_await", st, 0)

OfferConfirmed ==
    \/ st.offer_confirmed_sent /\ Pure("offer_confirmed", "journey_wait_await", st, 0)
    \/ /\ ~st.offer_confirmed_sent
       /\ Node("offer_confirmed", "journey_wait_await", [st EXCEPT !.offer_confirmed_sent = TRUE],
               world, rem, Says("offer_confirmed"), 0)

\* Faulty: nothing is made up for.
FaultyActivated == Node("activated", "invoice_collect_await", st, world, rem, Says("activated"), 0)

\* The confirmation is made up for when it was skipped; that it fails is tolerated.
Activated ==
    \/ /\ st.offer_confirmed_sent
       /\ Node("activated", "invoice_collect_await", st, world, rem, Says("activated"), 0)
    \/ /\ ~st.offer_confirmed_sent
       /\ Node("activated", "invoice_collect_await", [st EXCEPT !.offer_confirmed_sent = TRUE],
               world, rem, SaysTwo("offer_confirmed", "activated"), 0)
    \/ /\ ~st.offer_confirmed_sent
       /\ Node("activated", "invoice_collect_await", st, world, rem, Says("activated"), 1)
    \/ /\ ~st.offer_confirmed_sent /\ At("activated")
       /\ Raises(NoInput, world, rem, Says("offer_confirmed"), 0)
       /\ UNCHANGED <<mail, claims, files>>

=============================================================================
