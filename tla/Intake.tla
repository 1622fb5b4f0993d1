------------------------------- MODULE Intake -------------------------------
(***************************************************************************)
(* The first half of the onboarding graph: the registration lookup, the    *)
(* campaign, account creation, consent and CR, audited financials, and the *)
(* wait for pre-qualification; and the way a returning SME re-enters.      *)
(***************************************************************************)
EXTENDS OnboardingState

-----------------------------------------------------------------------------
(* Entry and campaign *)

Registered(new) == [new EXCEPT !.registered = TRUE, !.reg_offers = world.offers]

\* A failed lookup falls through to the campaign.
EntryRegistrationCheck ==
    \/ world.registered  /\ Pure("entry_registration_check", "channel_session_resume", Registered(st), 0)
    \/ ~world.registered /\ Pure("entry_registration_check", "campaign_send", st, 0)
    \/ Pure("entry_registration_check", "campaign_send", st, 1)

CampaignSend == Pure("campaign_send", "campaign_await", st, 0)

\* Synthetic resumes park again without a word.
CampaignAwait ==
    \E p \in {"yes", "no", "ask"} \cup Synthetic :
        /\ Resumed("campaign_await", p, {"yes", "no", "ask"})
        /\ \/ p \in Synthetic /\ Reparks(st)
           \/ p = "ask" /\ Answers(p, st)
           \/ /\ p \in {"yes", "no"}
              /\ Then(p, IF p = "yes" THEN "check_contact_send" ELSE "declined", st, world, rem, said, 0, {})
              /\ UNCHANGED claims

\* The nodes that send one message and end the run
Ends(n) == Pure(n, "end", st, 0)

Declined              == Ends("declined")
DomainBlocked         == Ends("domain_blocked")
RegisteredRouteSend   == Ends("registered_route_send")
ResumeRejected        == Ends("resume_rejected")
ResumeOfferExpired    == Ends("resume_offer_expired")
ResumeApplicationOpen == Ends("resume_application_open")
NotEligible           == Ends("not_eligible")
NotQualified          == Ends("not_qualified")
NotPreQualified       == Ends("not_pre_qualified")

Farewell ==
    \/ Declined \/ DomainBlocked \/ RegisteredRouteSend \/ ResumeRejected \/ ResumeOfferExpired
    \/ ResumeApplicationOpen \/ NotEligible \/ NotQualified \/ NotPreQualified

\* check_contact raises; the second registration lookup is tolerated.
CheckContactSend ==
    \E c \in {"existing", "blocked", "new"}, f \in {0, 1} :
        /\ c = "existing" <=> world.registered
        /\ Pure("check_contact_send", "check_contact_await",
                IF world.registered /\ f = 0 THEN Registered([st EXCEPT !.contact = c])
                                             ELSE [st EXCEPT !.contact = c], f)

RouteCheckContact ==
    IF st.registered                    THEN "channel_session_resume"
    ELSE IF st.contact = "existing"     THEN "channel_session_first"
    ELSE IF st.contact = "blocked"      THEN "domain_blocked"
    ELSE IF world.channel = "whatsapp"  THEN "channel_session_create_user"
    ELSE                                     "complete_onboarding_send"

CheckContactAwait == Pure("check_contact_await", RouteCheckContact, st, 0)

-----------------------------------------------------------------------------
(* Accounts and sessions.  A session may come without an access token. *)

Sessions(n, next) ==
    \/ Pure(n, next, [st EXCEPT !.token = TRUE], 0)
    \/ Pure(n, next, [st EXCEPT !.token = FALSE], 1)

ChannelSessionFirst  == Sessions("channel_session_first", "consent_send")
ChannelSessionResume == Sessions("channel_session_resume", "resume_status_fetch")
ChannelSessionSecond == Sessions("channel_session_second", "business_email_send")

Account(w, s) == IF w.registered THEN w ELSE [w EXCEPT !.registered = TRUE, !.status = s]

ChannelSessionCreateUser ==
    \E f \in ProgressFaults(1) :
        Node("channel_session_create_user", "business_email_send",
             Recorded([st EXCEPT !.token = TRUE], 1, f), Progressed(Account(world, "SIGN_UP"), 1, f),
             rem, said, f)

\* Both of its calls are tolerated: the account may be missing afterwards.
CompleteOnboardingSend ==
    \/ Node("complete_onboarding_send", "channel_session_second", st, Account(world, "ONBOARDED"), rem, said, 0)
    \/ Pure("complete_onboarding_send", "channel_session_second", st, 1)

BusinessEmailSend         == Pure("business_email_send", "business_email_await", st, 0)
BusinessEmailConflictSend == Pure("business_email_conflict_send", "business_email_await", st, 0)

\* _smart_extract_email: a reply holds an address or is a question
EmailReplies == {"address", "ask"}

\* The recorded step is not written back to the state here.
BusinessEmailAwait ==
    \E p \in EmailReplies \cup Synthetic :
        /\ Resumed("business_email_await", p, EmailReplies)
        /\ \/ p \in Synthetic /\ Reparks(st)
           \/ p = "ask" /\ Answers(p, st)
           \/ /\ p = "address"
              /\ UNCHANGED claims
              /\ \/ \E f \in ProgressFaults(2) : Then(p, "consent_send", st, Progressed(world, 2, f), rem, said, f, {})
                 \/ Then(p, "business_email_conflict_send", st, world, rem, said, 0, {})
                 \/ Then(p, "business_email_await", st, world, rem, said, 1, {})

-----------------------------------------------------------------------------
(* A returning SME *)

RouteResumeByStatus(s) ==
    CASE s.status = "NONE"                     -> "registered_route_send"
      [] s.status \in {"SIGN_UP", "ONBOARDED"} -> IF s.has_email THEN "consent_send" ELSE "business_email_send"
      [] s.status = "ELIGIBLE"                 -> "financials_send"
      [] s.status \in Documenting              -> "documents_list_fetch"
      [] s.status = "QUALIFIED"                -> "business_details_fetch"
      [] s.status = "ACCEPTED"                 -> "offers_fetch"
      [] s.status = "OFFER_ACCEPTED"           -> "offer_confirmed"
      [] s.status = "OFFER_EXPIRED"            -> "resume_offer_expired"
      [] s.status = "ACTIVATED"                -> "activated"
      [] s.status = "NOT_ACCEPTED"             -> "resume_rejected"
      [] s.status = "OPEN"                     -> "resume_application_open"
      [] s.status = "IN_ELIGIBLE"              -> "not_eligible"
      [] s.status = "UNQUALIFIED"              -> "not_qualified"

\* The poll raises; the lookup of the email is tolerated.
ResumeStatusFetch ==
    \E f \in {0, 1}, e \in BOOLEAN :
        LET new == [st EXCEPT !.status = PolledStatus(st.token), !.has_email = e /\ st.token /\ f = 0]
        IN  Pure("resume_status_fetch", RouteResumeByStatus(new), new, f)

-----------------------------------------------------------------------------
(* Consent and commercial registration *)

\* _extra_documents_to_stash: what came along with the document asked for
Stashed(p, name) == IF p = "files" THEN {name} ELSE {}

ConsentSend == Pure("consent_send", "consent_await", st, 0)

ConsentAwait ==
    \E p \in {"file", "files", "ask"} \cup Synthetic :
        /\ Resumed("consent_await", p, {"file", "files", "ask"})
        /\ \/ p \in Synthetic /\ Reparks(st)
           \/ p = "ask" /\ Answers(p, st)
           \/ LET extra == Stashed(p, "with_cr")
              IN  /\ p \in {"file", "files"}
                  /\ Then(p, "cr_upload_base64", [st EXCEPT !.cr_ref = TRUE, !.extras = @ \cup extra],
                          world, rem, said, 0, {"cr"} \cup extra)
                  /\ UNCHANGED claims

CR_MAX_REUPLOAD_NUDGES == 2

\* Without a token, or when the forced upload fails, it says so and raises.
CrUploadFails ==
    /\ At("cr_upload_base64")
    /\ Raises(NoInput, world, rem, said, 0)
    /\ UNCHANGED <<mail, claims, files>>

\* The classifier says it is no CR: ask again, at most twice.  The SME is told
\* that the file was not taken.
CrReupload ==
    /\ At("cr_upload_base64") /\ st.cr_reject_count < CR_MAX_REUPLOAD_NUDGES
    /\ RunsTo("consent_await", [st EXCEPT !.cr_reject_count = @ + 1, !.token = TRUE], world, rem, said, 0)
    /\ files' = files \ {"cr"}
    /\ UNCHANGED <<mail, claims>>

\* Confirmed, no verdict, or asked twice already
CrSaved(w) ==
    [w EXCEPT !.saved = @ \cup {"cr"},
              !.status = IF @ \in {"SIGN_UP", "ONBOARDED"} THEN "INCOMPLETE" ELSE @]

CrUpload ==
    \E kept \in SUBSET st.extras, f \in ProgressFaults(2) :
        Node("cr_upload_base64", "financials_send",
             Recorded([st EXCEPT !.cr_reject_count = 0, !.token = TRUE, !.extras = kept], 2, f),
             Progressed(Drained(CrSaved(world), kept), 2, f), rem, said, f + DrainFaults(kept))

-----------------------------------------------------------------------------
(* Audited financials *)

\* Neither a failed message nor a failed schedule stops it.
FinancialsSend ==
    \/ Node("financials_send", "financials_await", st, world, rem \cup {"financials_pending"}, said, 0)
    \/ Pure("financials_send", "financials_await", st, 1)

\* There is no guard for synthetic resumes: they and free text end the reminders.
FinancialsAwait ==
    \E p \in {"file", "files", "again", "ask", "free"} \cup Synthetic :
        /\ Resumed("financials_await", p, {"file", "files", "again", "ask", "free"})
        /\ \/ p \in {"again", "ask"} /\ Answers(p, [st EXCEPT !.financials_received = FALSE])
           \/ /\ p \in {"free"} \cup Synthetic
              /\ Then(p, "financials_await", [st EXCEPT !.financials_received = FALSE], world, {},
                      IF p \in Ticks THEN Says("unasked") ELSE said, 0, {})
              /\ UNCHANGED claims
           \/ LET extra == Stashed(p, "with_financials")
              IN  /\ p \in {"file", "files"}
                  /\ Then(p, "financials_upload_base64",
                          [st EXCEPT !.financials_received = TRUE, !.extras = @ \cup extra],
                          world, {}, said, 0, {"fin"} \cup extra)
                  /\ UNCHANGED claims

FinancialsUploadFails ==
    /\ At("financials_upload_base64")
    /\ Raises(NoInput, world, rem, said, 0)
    /\ UNCHANGED <<mail, claims, files>>

FinancialsUpload ==
    \E kept \in SUBSET st.extras, f \in ProgressFaults(3) :
        Node("financials_upload_base64", "prequalify_wait_await",
             Recorded([st EXCEPT !.token = TRUE, !.extras = kept], 3, f),
             Progressed(Drained([world EXCEPT !.saved = @ \cup {"fin"}], kept), 3, f),
             rem, said, f + DrainFaults(kept))

\* Any status counts as pre-qualification; which one it was is not kept.
PrequalifyWaitAwait ==
    \E p \in {"file", "ask"} \cup Synthetic :
        /\ Resumed("prequalify_wait_await", p, {"file", "ask"})
        /\ \/ /\ p = "rejected"
              /\ Then(p, "not_pre_qualified", st, world, {}, said, 0, {})
              /\ UNCHANGED claims
           \/ /\ p \in StatusEvents
              /\ \E f \in ProgressFaults(4) :
                     Then(p, "documents_list_fetch", Recorded(st, 4, f), Progressed(world, 4, f), rem, said, f, {})
              /\ UNCHANGED claims
           \/ p \in Ticks /\ Reparks(st)
           \/ p = "file" /\ CapturesAdditional(p)
           \/ p \in {"ask"} \cup FeeEvents /\ Answers(p, st)

=============================================================================
