----------------------------- MODULE Onboarding -----------------------------
(***************************************************************************)
(* One onboarding run from its first message to the active credit line,    *)
(* with the backend that moves the application and the poller that ticks.  *)
(***************************************************************************)
EXTENDS FundingPhase

-----------------------------------------------------------------------------
(* The Madad backend.  A webhook may get lost on its way. *)

Notifies(e) == Posts(e) \/ UNCHANGED mail

Backend(w) == world' = w /\ UNCHANGED <<at, inp, st, rem, said, claims, files, faults>>

Becomes(s) == [world EXCEPT !.status = s]

\* The checklist is gated on step 3 of a WhatsApp lead.
PreQualifies ==
    /\ world.status = "INCOMPLETE" /\ "fin" \in world.saved
    /\ world.channel = "whatsapp" => world.step >= 3
    /\ \/ Backend(Becomes("PRE_QUALIFIED")) /\ Notifies("prequal")
       \/ Backend(Becomes("IN_ELIGIBLE"))   /\ Notifies("rejected")

Qualifies ==
    /\ world.status = "PRE_QUALIFIED"
    /\ \/ Backend(Becomes("QUALIFIED")) /\ Notifies("score")
       \/ Backend(Becomes("UNQUALIFIED")) /\ UNCHANGED mail

FeeIsSettled ==
    /\ world.status = "QUALIFIED" /\ ~world.fee
    /\ \/ world.payment /\ Backend([world EXCEPT !.fee = TRUE]) /\ Notifies("paid")
       \/ Backend([world EXCEPT !.fee = TRUE]) /\ Notifies("waived")

LenderAnswers ==
    /\ world.fee
    /\ \/ /\ world.status \in {"QUALIFIED", "ACCEPTED"} /\ world.offers < MaxOffers
          /\ Backend([world EXCEPT !.status = "ACCEPTED", !.offers = @ + 1]) /\ Notifies("offers")
       \/ world.status = "QUALIFIED" /\ Backend(Becomes("NOT_ACCEPTED")) /\ UNCHANGED mail

OfferIsSelected ==
    /\ world.status = "ACCEPTED"
    /\ \/ Backend(Becomes("OFFER_ACCEPTED")) /\ Notifies("selected")
       \/ Backend(Becomes("OFFER_EXPIRED")) /\ UNCHANGED mail

CreditLineActivated ==
    world.status = "OFFER_ACCEPTED" /\ Backend(Becomes("ACTIVATED")) /\ Notifies("activated")

\* A status webhook of an earlier stage comes late, or again.
Journey == <<"PRE_QUALIFIED", "QUALIFIED", "ACCEPTED", "OFFER_ACCEPTED", "ACTIVATED">>

ArrivesLate ==
    /\ world.late < MaxLate
    /\ \E e \in StatusEvents, i, j \in DOMAIN Journey :
           /\ i < j /\ Journey[i] = EventStatus[e] /\ Journey[j] = world.status
           /\ Posts(e)
    /\ Backend([world EXCEPT !.late = @ + 1])

\* The poller resumes a parked run; by the time it gets there the run may be elsewhere.
PollTick ==
    /\ at \in Pollable /\ inp = NoInput
    /\ Posts("poll")
    /\ UNCHANGED <<at, inp, st, world, rem, said, claims, files, faults>>

-----------------------------------------------------------------------------
(* Specification *)

PlainNodes ==
    \/ EntryRegistrationCheck \/ CampaignSend \/ Farewell \/ CheckContactSend \/ CheckContactAwait
    \/ ChannelSessionFirst \/ ChannelSessionResume \/ ChannelSessionSecond \/ ChannelSessionCreateUser
    \/ CompleteOnboardingSend \/ BusinessEmailSend \/ BusinessEmailConflictSend \/ ResumeStatusFetch
    \/ ConsentSend \/ CrUploadFails \/ CrReupload \/ CrUpload \/ FinancialsSend \/ FinancialsUploadFails
    \/ FinancialsUpload \/ DocumentsListFetch \/ DocumentsUploadLoopSend \/ DocumentsComplete
    \/ BusinessDetailsFetch \/ ProductsListFetch \/ PaymentCreate \/ PaymentSendLink
    \/ LenderStatusPoll \/ StatusPollOnDemand \/ OffersFetch \/ OfferViewSend \/ OfferHandoffToMadad
    \/ OfferConfirmed \/ Activated

FeeAndLenderWaits == PaymentAwait \/ LenderWaitAwait \/ JourneyWaitAwait

AwaitNodes ==
    \/ CampaignAwait \/ BusinessEmailAwait \/ ConsentAwait \/ FinancialsAwait \/ PrequalifyWaitAwait
    \/ DocumentsUploadLoopAwait \/ PaymentWaitAwait \/ FeeAndLenderWaits

Environment ==
    \/ PreQualifies \/ Qualifies \/ FeeIsSettled \/ LenderAnswers \/ OfferIsSelected \/ CreditLineActivated
    \/ ArrivesLate \/ PollTick \/ MaybeSettleDocs \/ ClaimExpires \/ WindowPasses

Next == PlainNodes \/ AwaitNodes \/ Environment

Spec == Init /\ [][Next]_vars

\* The executor runs what is runnable and retries what failed; the beat keeps
\* ticking, and what is under way to a waiting run gets there.
FairSpec ==
    /\ Spec
    /\ WF_vars(PlainNodes) /\ WF_vars(WindowPasses)
    /\ WF_vars(FeeAndLenderWaits /\ inp # NoInput)
    /\ SF_vars(PollTick)
    /\ SF_vars(FeeAndLenderWaits /\ mail' # mail)
    /\ SF_vars(FeeAndLenderWaits /\ "poll" \in mail /\ "poll" \notin mail')

-----------------------------------------------------------------------------
(* Properties *)

\* No file is lost between the node that took it from the SME and the backend:
\* the CR, the audited report and every file sent along with them are saved,
\* stashed in the state, or in the hands of the upload node that retries
\* (_extra_documents_to_stash, _drain_pending_extras, the raising upload nodes).
FilesKept ==
    files \ Docs \subseteq
        world.saved \cup st.extras
        \cup (IF at = "cr_upload_base64" THEN {"cr"} ELSE {})
        \cup (IF at = "financials_upload_base64" THEN {"fin"} ELSE {})

\* On WhatsApp neither "no more documents" nor completion is open to an SME of
\* whom the backend holds no document (the P0-1 rule in the upload loop: only
\* confirmed saves count).
DocsBacked ==
    world.channel = "whatsapp" /\ (st.uploaded \/ at = "documents_complete") => world.saved \cap Docs # {}

\* Files and documents are where they are claimed to be, in a state whose
\* counters and steering fields (cr_reject_count, the recorded step, the awaited
\* documents) have their types.
FilesInv == TypeOK /\ FilesKept /\ DocsBacked

\* Completion, the settle prompt for one set of documents, the confirmations and
\* the cards of one set of offers go out once, and once more for each failure:
\* whatever the poller, the webhooks and the retries repeat.
SaidOnce ==
    /\ said.complete <= 1 + faults
    /\ said.prompt <= Cardinality(Docs) + faults
    /\ said.confirmed <= 1 + faults
    /\ said.offer_confirmed <= 1 + faults
    /\ \A n \in 0 .. MaxOffers : said.preview[n] <= 1 + faults

\* A tick is never answered, wherever the run is by the time it arrives
\* (_is_inert_system_resume and the guards of the waiting nodes).
SilentTicks == said.unasked = 0

\* A run that knows the fee is settled sends no payment request
\* (_route_documents, _route_payment_wait, _route_journey_status).
PaidNeverBilled == at \in {"payment_create", "payment_send_link"} => ~st.paid

\* The step the backend keeps goes back only after a second failure
\* (_update_progress: "don't regress on retries").  Some nodes do not write the
\* recorded step back and any of them may run twice: once a node broke off after
\* its report, and the report of its repeat failed too, the run's record of the
\* step is behind the backend, and a late QUALIFIED sends step 6 after step 8.
StepsForward == [][world'.step < world.step => faults > 1]_vars

\* Activation is announced after the confirmation of the offer, also when the
\* webhook of the selection is late or lost; a failed send is the exception.
ActivatedAfterConfirmed == said.activated > 0 => said.offer_confirmed > 0 \/ faults > 0

\* What the SME is told: never twice, never unasked, never in the wrong order.
SaidInv == SaidOnce /\ SilentTicks /\ ActivatedAfterConfirmed

\* A settled fee, waived without a webhook included, gets a run out of
\* payment_await (the waiver check on the poll path).
WaiverNoticed == (at = "payment_await" /\ FeeCleared) ~> (at # "payment_await")

\* Offers reach an SME whose run waits, also when only one lender ever quotes:
\* the debounce window does not hold them back for good.
OfferShown ==
    (at \in {"lender_wait_await", "journey_wait_await"} /\ world.status = "ACCEPTED")
        ~> (world.status # "ACCEPTED" \/ \E n \in 0 .. MaxOffers : said.preview[n] > 0)

=============================================================================
