--------------------------- MODULE DocumentsPhase ---------------------------
(***************************************************************************)
(* The documents loop: the checklist, the uploads, the settle prompt of    *)
(* the poller, completion, and the wait for the assessment.                *)
(***************************************************************************)
EXTENDS Intake

-----------------------------------------------------------------------------
(* The checklist *)

\* WhatsApp shows the full checklist; email asks the backend what is missing.
DocumentsListFetch ==
    Pure("documents_list_fetch", "documents_upload_loop_send",
         [st EXCEPT !.missing = IF world.channel = "whatsapp" THEN Docs
                                ELSE IF st.token THEN Docs \ world.saved
                                ELSE {}], 0)

\* A claim of a key: won when it is free, and when Redis cannot be asked.
Claim(key, first, f) ==
    /\ first = (key \notin claims \/ f = 1)
    /\ claims' = IF f = 1 THEN claims ELSE claims \cup {key}

\* Whoever does not win the claim sends nothing; a retry does not win it again.
DocumentsUploadLoopSend ==
    \E first \in BOOLEAN, f \in {0, 1} :
        /\ At("documents_upload_loop_send")
        /\ Claim("checklist", first, f)
        /\ IF first THEN Then(NoInput, "documents_upload_loop_await", st, world, rem \cup {"incomplete_docs"},
                              said, f, {})
                    ELSE RunsTo("documents_upload_loop_await", st, world, rem, said, f) /\ UNCHANGED files
        /\ UNCHANGED mail

-----------------------------------------------------------------------------
(* The upload loop *)

RouteDocuments(s) ==
    IF s.paid \/ s.status \in Settled          THEN "lender_status_poll"
    ELSE IF s.ready \/ s.status = "QUALIFIED"  THEN "business_details_fetch"
    ELSE IF s.proceed                          THEN "payment_wait_await"
    ELSE IF s.missing = {} /\ ~s.complete_sent THEN "documents_complete"
    ELSE                                            "documents_upload_loop_await"

\* The node ends with the edge its new state asks for.
Loops(p, new, w, r, s, f, got) == Then(p, RouteDocuments(new), new, w, r, s, f, got)

\* payment.completed and qualified.waived
FeeSettled(p) ==
    /\ p \in FeeEvents
    /\ \E f \in ProgressFaults(5) :
           Loops(p, Recorded([st EXCEPT !.paid = TRUE, !.ready = TRUE, !.source = SourceOf(p)], 5, f),
                 Progressed(world, 5, f), {}, said, f, {})
    /\ UNCHANGED claims

\* A status fast-forwards the run when it is QUALIFIED or later.
ForcedStatus(p) ==
    LET s   == StatusIn(p)
        new == [st EXCEPT !.status = s, !.source = SourceOf(p),
                          !.ready = @ \/ s \in QualifiedPlus, !.paid = @ \/ s \in Settled]
    IN  /\ p \in StatusEvents
        /\ \/ /\ s \in QualifiedPlus
              /\ \E f \in ProgressFaults(5) :
                     Loops(p, Recorded(new, 5, f), Progressed(world, 5, f), {}, said, f, {})
           \/ s \notin QualifiedPlus /\ Loops(p, new, world, {}, said, 0, {})
        /\ UNCHANGED claims

\* Faulty: it prompts for the same set again.
FaultySettlePrompt(p) ==
    /\ p = "settle"
    /\ Loops(p, [st EXCEPT !.settle_prompted = TRUE], world, rem, Says("prompt"), 0, {})
    /\ UNCHANGED claims

\* The prompt for the rest, once for each set of missing documents
SettlePrompt(p) ==
    LET asked == [st EXCEPT !.settle_prompted = TRUE]
    IN  /\ p = "settle"
        /\ IF st.missing \in {{}, st.prompt_sig}
           THEN Loops(p, asked, world, rem, said, 0, {})
           ELSE Loops(p, [asked EXCEPT !.prompt_sig = st.missing], world, rem, Says("prompt"), 0, {})
        /\ UNCHANGED claims

\* "No, I'm done", as a button or, once something was uploaded, in words
LooksDone(p) == p = "done" \/ (p = "no" /\ st.uploaded)

DoneUploading(p) ==
    /\ LooksDone(p)
    /\ Loops(p, [st EXCEPT !.proceed = TRUE, !.complete_sent = TRUE], world, rem,
             IF st.complete_sent THEN said ELSE Says("complete"), 0, {})
    /\ UNCHANGED claims

\* The answers that leave the loop where it is.  A rejection carries no status
\* and no text; it is answered like a question.
StaysInLoop(p) ==
    \/ p = "more" /\ Reparks([st EXCEPT !.settle_prompted = FALSE])
    \/ /\ p \in {"ask", "poll", "rejected"} \/ (p = "no" /\ ~st.uploaded)
       /\ Answers(p, st)

\* The slots a saved file fills: its own, the next one, or none that was asked
\* for; a ZIP fills several.
UploadSaved(p, filled, f) ==
    LET new == [st EXCEPT !.missing = @ \ filled, !.uploaded = TRUE, !.token = TRUE,
                          !.acked = TRUE, !.settle_prompted = FALSE]
    IN  Loops(p, new, [world EXCEPT !.saved = @ \cup {p}],
              IF new.missing = {} THEN {} ELSE rem, said, f, {p})

\* Faulty: an attempt counts as an upload.
FaultyUploadFailed(p, f) ==
    Loops(p, [st EXCEPT !.settle_prompted = FALSE, !.uploaded = TRUE], world, rem, said, f + 1, {})

\* The backend did not take it: the SME is asked to send it again.
UploadFailed(p, f) ==
    Loops(p, [st EXCEPT !.settle_prompted = FALSE], world, rem, said, f + 1, {})

\* A new upload also gives the poller's settle claim a new key.
Upload(p) ==
    \E first \in BOOLEAN, f \in {0, 1} :
        /\ p \in Docs
        /\ first = (p \notin claims \/ f = 1)
        /\ IF first
           THEN /\ claims' = (claims \ {"settle"}) \cup (IF f = 1 THEN {} ELSE {p})
                /\ \/ \E filled \in SUBSET st.missing : UploadSaved(p, filled, f)
                   \/ UploadFailed(p, f)
           ELSE /\ UNCHANGED claims
                /\ Loops(p, st, world, rem, said, f, {p})

DocumentsUploadLoopAwait ==
    LET sme == Docs \cup {"more", "done", "no", "ask"}
    IN  \E p \in sme \cup Synthetic :
            /\ Resumed("documents_upload_loop_await", p, sme)
            /\ \/ FeeSettled(p) \/ ForcedStatus(p) \/ SettlePrompt(p)
               \/ DoneUploading(p) \/ StaysInLoop(p) \/ Upload(p)

\* Completion, once; the loop goes on for extra documents.
DocumentsComplete ==
    \E f \in ProgressFaults(5) :
        Node("documents_complete", "documents_upload_loop_await",
             Recorded([st EXCEPT !.complete_sent = TRUE], 5, f), Progressed(world, 5, f), rem,
             Says("complete"), f)

\* _maybe_settle_docs: uploads went quiet with documents missing.
MaybeSettleDocs ==
    /\ at = "documents_upload_loop_await" /\ inp = NoInput
    /\ st.missing # {} /\ st.acked /\ ~st.settle_prompted
    /\ "settle" \notin claims
    /\ claims' = claims \cup {"settle"}
    /\ Posts("settle")
    /\ UNCHANGED <<at, inp, st, world, rem, said, files, faults>>

ClaimExpires ==
    /\ \E key \in claims : claims' = claims \ {key}
    /\ UNCHANGED <<at, inp, st, world, mail, rem, said, files, faults>>

-----------------------------------------------------------------------------
(* The wait for the assessment.  payment_ready and paid are always false on   *)
(* arrival, so its short-circuit in front of await_input is not modelled.     *)

RoutePaymentWait(s) ==
    IF s.paid                                     THEN "lender_status_poll"
    ELSE IF s.ready \/ s.status \in QualifiedPlus THEN "business_details_fetch"
    ELSE                                               "payment_wait_await"

PaymentWaitAwait ==
    \E p \in {"file", "ask"} \cup Synthetic :
        LET settled == [st EXCEPT !.paid = TRUE, !.ready = TRUE, !.source = SourceOf(p)]
            new     == CASE p \in FeeEvents          -> settled
                         [] StatusIn(p) \in Settled  -> [settled EXCEPT !.status = StatusIn(p)]
                         [] OTHER                    -> [st EXCEPT !.ready = TRUE]
        IN  /\ Resumed("payment_wait_await", p, {"file", "ask"})
            /\ \/ /\ p \in FeeEvents \cup StatusEvents
                  /\ RunsTo(RoutePaymentWait(new), new, world, rem, said, 0)
                  /\ UNCHANGED <<claims, files>>
               \/ p \in Ticks \cup {"rejected"} /\ Reparks(st)
               \/ p = "file" /\ CapturesAdditional(p)
               \/ p = "ask" /\ Answers(p, st)

=============================================================================
