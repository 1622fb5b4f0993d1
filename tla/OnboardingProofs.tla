-------------------------- MODULE OnboardingProofs --------------------------
(* Proofs about Onboarding: a file handed in by the SME is never lost (FilesInv), no   *)
(* message is repeated but for a failure (SaidInv), a paid fee is never billed again    *)
(* (PaidNeverBilled), and the journey step does not go back but for two failures        *)
(* (StepsForward), for every number of documents, offers, messages and failures.        *)
(*                                                                                      *)
(* None of them is inductive. What a node may rely on depends on how far the run has    *)
(* got, so every node has a rank, and the inductive invariant says for each rank what   *)
(* is already known: the fee is unpaid before the lenders are asked (PaidIInv), the     *)
(* prompt was not sent before the documents loop and then once for each document less   *)
(* on the list (SaidIInv), a preview was sent once for the number of offers on record   *)
(* and never for one to come (ShownIInv), no tick arrives before its timer exists       *)
(* (MailIInv), and the backend's step is bounded by the rank (StepsIInv).               *)
(*                                                                                      *)
(* A step of the model touches few of these parts. Two shapes cover most of the steps:  *)
(* a node breaks off or something outside moves on and the run stays where it is        *)
(* (Stays), or the run moves and a part of the invariant does not notice (CalmFiles,    *)
(* CalmPaid, ...). The rest - uploads, the documents loop, the fee, the offers - have   *)
(* lemmas of their own.                                                                 *)
EXTENDS Onboarding, FiniteSetTheorems, TLAPS

-----------------------------------------------------------------------------
(* How far a run has got *)

Entry      == {"entry_registration_check", "campaign_send", "campaign_await", "check_contact_send"}
Contacting == {"check_contact_await", "channel_session_first", "channel_session_resume",
               "channel_session_second", "channel_session_create_user", "complete_onboarding_send",
               "resume_status_fetch"}
Consenting == {"business_email_send", "business_email_conflict_send", "business_email_await",
               "consent_send", "consent_await", "cr_upload_base64"}
Reporting  == {"financials_send", "financials_await", "financials_upload_base64"}
Expecting  == {"prequalify_wait_await", "documents_list_fetch"}
Looping    == {"documents_upload_loop_send", "documents_upload_loop_await", "documents_complete"}
Billing    == {"business_details_fetch", "products_list_fetch", "payment_create", "payment_send_link",
               "payment_await"}

\* Up to the documents loop the rank is the highest step a node so far reports.
Rank(n) ==
    IF n \in Entry THEN 0
    ELSE IF n \in Contacting THEN 1
    ELSE IF n \in Consenting THEN 2
    ELSE IF n \in Reporting THEN 3
    ELSE IF n \in Expecting THEN 4
    ELSE IF n \in Looping \cup {"payment_wait_await"} THEN 5
    ELSE IF n \in Billing THEN 6
    ELSE 7

Uploading == {"cr_upload_base64", "financials_upload_base64"}

-----------------------------------------------------------------------------
(* The invariants *)

Payloads == Docs \cup Synthetic \cup {NoInput, "file", "files", "again", "more", "done",
                                      "no", "yes", "address", "ask", "free"}
Reasons  == {"financials_pending", "incomplete_docs", "payment_pending"}

StTyped(s) ==
    /\ DOMAIN s = DOMAIN NewState
    /\ s.status \in JourneyStatuses \cup {"NONE"}
    /\ s.source \in {"none", "poll", "webhook", "chat"}
    /\ s.missing \subseteq Docs /\ s.prompt_sig \subseteq Docs
    /\ s.extras \subseteq Extras
    /\ s.cr_reject_count \in 0 .. 2
    /\ s.step \in 0 .. 8
    /\ s.offers \in 0 .. MaxOffers /\ s.reg_offers \in 0 .. MaxOffers
    /\ s.preview \in 0 .. MaxOffers + 1

WorldTyped(w) ==
    /\ DOMAIN w = DOMAIN NewLead("email")
    /\ w.status \in JourneyStatuses
    /\ w.offers \in 0 .. MaxOffers
    /\ w.step \in 0 .. 8
    /\ w.saved \subseteq Docs \cup Extras \cup {"cr", "fin"}

SaidTyped(d) ==
    /\ DOMAIN d = DOMAIN Nothing
    /\ d.prompt \in Nat /\ d.complete \in Nat /\ d.confirmed \in Nat
    /\ d.offer_confirmed \in Nat /\ d.activated \in Nat /\ d.unasked \in Nat
    /\ DOMAIN d.preview = 0 .. MaxOffers
    /\ \A n \in 0 .. MaxOffers : d.preview[n] \in Nat

SetsTyped ==
    /\ inp \in Payloads
    /\ mail \subseteq Synthetic
    /\ rem \subseteq Reasons
    /\ claims \subseteq Docs \cup {"checklist", "settle"}

Typed ==
    /\ StTyped(st) /\ WorldTyped(world) /\ SaidTyped(said)
    /\ SetsTyped
    /\ faults \in 0 .. MaxFaults

Backed(w) == w.saved \cap Docs # {}

FilesIInv ==
    /\ FilesKept
    /\ world.channel = "whatsapp" /\ st.uploaded => Backed(world)
    /\ world.channel = "whatsapp" /\ at \in Looping /\ st.missing # Docs => Backed(world)
    /\ at = "documents_complete" => st.missing = {}

PaidIInv == Rank(at) <= 6 => ~st.paid

Once(b) == IF b THEN 1 ELSE 0

SaidIInv ==
    /\ said.complete <= faults + Once(st.complete_sent)
    /\ at = "documents_complete" => ~st.complete_sent
    /\ said.confirmed <= faults + Once(st.confirmed_sent)
    /\ said.offer_confirmed <= faults + Once(st.offer_confirmed_sent)
    /\ said.activated > 0 => said.offer_confirmed > 0 \/ faults > 0
    /\ st.offer_confirmed_sent /\ MaxSaid > 0 => said.offer_confirmed > 0
    /\ said.unasked = 0
    /\ Rank(at) <= 4 => st.prompt_sig = {}
    /\ st.prompt_sig = {} => said.prompt <= faults
    /\ st.prompt_sig # {} =>
           /\ st.missing \subseteq st.prompt_sig
           /\ said.prompt + Cardinality(st.prompt_sig) <= faults + Cardinality(Docs) + 1

\* No offers were shown yet.
Unseen == MaxOffers + 1

ShownIInv ==
    /\ \A n \in 0 .. MaxOffers : said.preview[n] <= faults + 1
    /\ \A n \in 0 .. MaxOffers : n >= world.offers /\ n # st.preview => said.preview[n] <= faults
    /\ at = "offer_view_send" /\ st.offers # st.preview => said.preview[st.offers] <= faults
    /\ at = "offer_view_send" /\ st.offers < st.preview =>
           \A n \in 0 .. MaxOffers : said.preview[n] <= faults
    /\ st.preview = Unseen => \A n \in 0 .. MaxOffers : said.preview[n] <= faults
    /\ st.reg_offers > 0 => st.preview \in {st.reg_offers, Unseen}
    /\ st.reg_offers > 0 /\ at = "offer_view_send" => st.offers = st.reg_offers
    /\ st.preview # Unseen => st.preview <= world.offers
    /\ st.offers <= world.offers /\ st.reg_offers <= world.offers
    /\ Rank(at) = 0 => st.preview = Unseen

MailIInv ==
    /\ Rank(at) <= 4 => mail \cap Ticks = {} /\ inp \notin Ticks
    /\ Rank(at) <= 5 => "poll" \notin mail /\ inp # "poll"

StepsIInv ==
    /\ Rank(at) <= 5 => world.step <= Rank(at)
    /\ at \in Billing =>
           \/ world.step <= 6
           \/ (at = "payment_await" /\ world.step = 7)
           \/ st.step = 8 \/ faults > 1
    /\ Rank(at) = 7 /\ ~st.paid =>
           \/ world.step <= 6
           \/ st.step = 8 \/ faults > 1
           \/ (at = "offers_fetch" /\ faults > 0 /\ world.channel = "whatsapp")

IInv == Typed /\ FilesIInv /\ PaidIInv /\ SaidIInv /\ ShownIInv /\ MailIInv /\ StepsIInv

-----------------------------------------------------------------------------
(* What steps have in common *)

\* The backend learns, it does not forget.
Grows(w) ==
    /\ WorldTyped(w)
    /\ w.channel = world.channel /\ world.saved \subseteq w.saved /\ world.offers <= w.offers

\* At most one message more of each template, and none that nobody asked for
SaysMore(d) ==
    /\ SaidTyped(d)
    /\ d.unasked = said.unasked
    /\ said.prompt <= d.prompt /\ d.prompt <= said.prompt + 1
    /\ said.complete <= d.complete /\ d.complete <= said.complete + 1
    /\ said.confirmed <= d.confirmed /\ d.confirmed <= said.confirmed + 1
    /\ said.offer_confirmed <= d.offer_confirmed /\ d.offer_confirmed <= said.offer_confirmed + 1
    /\ \A n \in 0 .. MaxOffers : said.preview[n] <= d.preview[n] /\ d.preview[n] <= said.preview[n] + 1

FaultsUp == faults' \in 0 .. MaxFaults /\ faults <= faults'

\* The run stays where it is: something outside moved on, or a node broke off.
Stays ==
    /\ at' = at /\ st' = st /\ files' = files
    /\ Grows(world')
    /\ FaultsUp
    /\ said' = said \/ (SaysMore(said') /\ faults < faults')

\* A step leaves one part of the invariant alone.
CalmFiles ==
    /\ files' \ Docs \subseteq files \ Docs
    /\ world'.channel = world.channel /\ world.saved \subseteq world'.saved
    /\ st'.extras = st.extras /\ st'.missing = st.missing /\ (st'.uploaded => st.uploaded)
    /\ at \notin Uploading
    /\ at' \in Looping => at \in Looping
    /\ at' = "documents_complete" => st'.missing = {}

CalmPaid == Rank(at') <= 6 => ~st'.paid \/ (Rank(at) <= 6 /\ st'.paid = st.paid)

CalmSaid ==
    /\ said'.prompt = said.prompt /\ said'.complete = said.complete
    /\ said'.confirmed = said.confirmed /\ said'.offer_confirmed = said.offer_confirmed
    /\ said'.activated = said.activated /\ said'.unasked = said.unasked
    /\ FaultsUp
    /\ st'.complete_sent = st.complete_sent /\ st'.confirmed_sent = st.confirmed_sent
    /\ st'.offer_confirmed_sent = st.offer_confirmed_sent
    /\ st'.prompt_sig = st.prompt_sig /\ st'.missing \subseteq st.missing
    /\ Rank(at') <= 4 => Rank(at) <= 4
    /\ at' = "documents_complete" => ~st'.complete_sent

CalmShown ==
    /\ said'.preview = said.preview
    /\ FaultsUp
    /\ st'.preview = st.preview /\ st'.reg_offers = st.reg_offers /\ st'.offers = st.offers
    /\ world'.offers \in 0 .. MaxOffers /\ world.offers <= world'.offers
    /\ at' # "offer_view_send"
    /\ Rank(at') = 0 => Rank(at) = 0

CalmMail ==
    /\ Rank(at') <= 5 => Rank(at) <= Rank(at')
    /\ mail' \subseteq mail
    /\ inp' \in {inp} \cup mail \/ inp' \notin Ticks

CalmSteps ==
    /\ world'.step = world.step /\ st'.step = st.step
    /\ FaultsUp
    /\ \/ Rank(at) <= 5 /\ Rank(at) <= Rank(at')
       \/ Rank(at) = 6 /\ Rank(at') = 6 /\ (at = "payment_await" => at' = "payment_await")
       \/ Rank(at) = 7 /\ Rank(at') = 7 /\ at # "offers_fetch" /\ (st.paid => st'.paid)

-----------------------------------------------------------------------------
(* Facts about constants and ranks *)

\* The bounds are natural numbers.
LEMMA BoundsNat ==
    /\ MaxOffers \in Nat /\ MaxLate \in Nat /\ MaxMail \in Nat /\ MaxSaid \in Nat /\ MaxFaults \in Nat
  BY BoundsAssumption

\* Ranks are compared as numbers.
LEMMA RankNat == ASSUME NEW n PROVE Rank(n) \in 0 .. 7
  BY DEF Rank

\* The ranks of the nodes that the invariants name
LEMMA RankOf ==
    ASSUME NEW n
    PROVE  /\ n \in Entry => Rank(n) = 0
           /\ n \in Contacting => Rank(n) = 1
           /\ n \in Consenting => Rank(n) = 2
           /\ n \in Reporting => Rank(n) = 3
           /\ n \in Expecting => Rank(n) = 4
           /\ n \in Looping \cup {"payment_wait_await"} => Rank(n) = 5
           /\ n \in Billing <=> Rank(n) = 6
           /\ n \notin Entry \cup Contacting \cup Consenting \cup Reporting \cup Expecting \cup Looping
                       \cup {"payment_wait_await"} \cup Billing => Rank(n) = 7
  BY DEF Rank, Entry, Contacting, Consenting, Reporting, Expecting, Looping, Billing

\* The calm steps keep each part of the invariant.
LEMMA CalmFilesKeeps ==
    ASSUME Typed, FilesIInv, CalmFiles
    PROVE  FilesIInv'
  <1>1. FilesKept'
    BY DEF FilesIInv, CalmFiles, FilesKept, Uploading
  <1>2. Backed(world) => Backed(world')
    BY DEF Backed, CalmFiles
  <1>. QED BY <1>1, <1>2 DEF FilesIInv, CalmFiles, Backed

\* A run that may still have to pay has not paid.
LEMMA CalmPaidKeeps ==
    ASSUME PaidIInv, CalmPaid
    PROVE  PaidIInv'
  BY DEF PaidIInv, CalmPaid

\* The counts of messages and the fields that keep them from being said again are what they were.
LEMMA CalmSaidKeeps ==
    ASSUME Typed, SaidIInv, CalmSaid
    PROVE  SaidIInv'
  <1>1. faults \in Nat /\ faults' \in Nat /\ faults <= faults'
    BY BoundsNat DEF Typed, CalmSaid, FaultsUp
  <1>2. Cardinality(Docs) \in Nat /\ Cardinality(st.prompt_sig) \in Nat
    BY DocsAssumption, FS_CardinalityType, FS_Subset DEF Typed, StTyped
  <1>3. /\ said.complete \in Nat /\ said.prompt \in Nat /\ said.confirmed \in Nat
        /\ said.offer_confirmed \in Nat /\ said.activated \in Nat
    BY DEF Typed, SaidTyped
  <1>4. Rank(at) <= 4 => st.prompt_sig = {}
    BY DEF SaidIInv
  <1>5. st'.prompt_sig = st.prompt_sig /\ st'.missing \subseteq st.missing
    BY DEF CalmSaid
  <1>6. Once(st.complete_sent) \in Nat /\ Once(st.confirmed_sent) \in Nat
        /\ Once(st.offer_confirmed_sent) \in Nat
    BY DEF Once
  <1>7. Rank(at') <= 4 => st'.prompt_sig = {}
    BY <1>4, <1>5 DEF CalmSaid
  <1>8. /\ (said.complete <= faults + Once(st.complete_sent))'
        /\ (said.confirmed <= faults + Once(st.confirmed_sent))'
        /\ (said.offer_confirmed <= faults + Once(st.offer_confirmed_sent))'
    BY <1>1, <1>3, <1>6 DEF SaidIInv, CalmSaid
  <1>9. /\ (st.prompt_sig = {} => said.prompt <= faults)'
        /\ (st.prompt_sig # {} => said.prompt + Cardinality(st.prompt_sig) <= faults + Cardinality(Docs) + 1)'
    BY <1>1, <1>2, <1>3, <1>5 DEF SaidIInv, CalmSaid
  <1>10. (st.prompt_sig # {} => st.missing \subseteq st.prompt_sig)'
    BY <1>5 DEF SaidIInv
  <1>11. (said.activated > 0 => said.offer_confirmed > 0 \/ faults > 0)'
    BY <1>1, <1>3 DEF SaidIInv, CalmSaid
  <1>. QED BY <1>7, <1>8, <1>9, <1>10, <1>11 DEF SaidIInv, CalmSaid

\* No preview is sent, and what the backend knows of offers only grows.
LEMMA CalmShownKeeps ==
    ASSUME Typed, ShownIInv, CalmShown
    PROVE  ShownIInv'
  <1>1. faults \in Nat /\ faults' \in Nat /\ faults <= faults' /\ MaxOffers \in Nat
    BY BoundsNat DEF Typed, CalmShown, FaultsUp
  <1>2. \A n \in 0 .. MaxOffers : said.preview[n] \in Nat
    BY DEF Typed, SaidTyped
  <1>3. world.offers \in 0 .. MaxOffers /\ world'.offers \in 0 .. MaxOffers /\ world.offers <= world'.offers
    BY DEF Typed, WorldTyped, CalmShown
  <1>4. st.preview \in 0 .. MaxOffers + 1 /\ st.offers \in 0 .. MaxOffers /\ st.reg_offers \in 0 .. MaxOffers
    BY DEF Typed, StTyped
  <1>5. /\ st'.preview = st.preview /\ st'.reg_offers = st.reg_offers /\ st'.offers = st.offers
        /\ said'.preview = said.preview
    BY DEF CalmShown
  <1>6. (\A n \in 0 .. MaxOffers : said.preview[n] <= faults + 1)'
    BY <1>1, <1>2, <1>5 DEF ShownIInv
  <1>7. (\A n \in 0 .. MaxOffers : n >= world.offers /\ n # st.preview => said.preview[n] <= faults)'
    BY <1>1, <1>2, <1>3, <1>5 DEF ShownIInv
  <1>8. (st.preview = Unseen => \A n \in 0 .. MaxOffers : said.preview[n] <= faults)'
    BY <1>1, <1>2, <1>5 DEF ShownIInv, Unseen
  <1>9. /\ (st.preview # Unseen => st.preview <= world.offers)'
        /\ (st.offers <= world.offers /\ st.reg_offers <= world.offers)'
    BY <1>1, <1>3, <1>4, <1>5 DEF ShownIInv, Unseen
  <1>10. (Rank(at) = 0 => st.preview = Unseen)'
    BY <1>5 DEF ShownIInv, CalmShown, Unseen
  <1>. QED BY <1>5, <1>6, <1>7, <1>8, <1>9, <1>10 DEF ShownIInv, CalmShown, Unseen

\* Nothing is added to the mail, and the answer taken from it is the input.
LEMMA CalmMailKeeps ==
    ASSUME MailIInv, CalmMail
    PROVE  MailIInv'
  <1>1. Rank(at) \in 0 .. 7 /\ Rank(at') \in 0 .. 7
    BY RankNat
  <1>. QED BY <1>1 DEF MailIInv, CalmMail, Ticks

\* The recorded step stands, and the run does not fall back.
LEMMA CalmStepsKeeps ==
    ASSUME Typed, StepsIInv, PaidIInv, CalmSteps
    PROVE  StepsIInv'
  <1>1. Rank(at) \in 0 .. 7 /\ Rank(at') \in 0 .. 7
    BY RankNat
  <1>2. (at \in Billing <=> Rank(at) = 6) /\ (at' \in Billing <=> Rank(at') = 6)
    BY RankOf
  <1>3. world.step \in 0 .. 8 /\ faults \in Nat /\ faults' \in Nat /\ faults <= faults'
    BY BoundsNat DEF Typed, WorldTyped, CalmSteps, FaultsUp
  <1>4. CASE Rank(at) <= 5
    <2>1. world'.step = world.step /\ world.step <= Rank(at) /\ Rank(at) <= Rank(at')
      BY <1>1, <1>4 DEF StepsIInv, CalmSteps
    <2>2. world'.step <= Rank(at') /\ world'.step <= 6
      BY <1>1, <1>3, <1>4, <2>1
    <2>. QED BY <2>2 DEF StepsIInv
  <1>5. CASE Rank(at) = 6
    BY <1>1, <1>2, <1>3, <1>5 DEF StepsIInv, CalmSteps
  <1>6. CASE Rank(at) = 7
    BY <1>1, <1>2, <1>3, <1>6 DEF StepsIInv, CalmSteps
  <1>. QED BY <1>1, <1>4, <1>5, <1>6

-----------------------------------------------------------------------------
(* Steps that leave the run where it is *)

\* What stays keeps the files where they are.
LEMMA StaysFiles ==
    ASSUME Typed, FilesIInv, Stays
    PROVE  FilesIInv'
  <1>1. /\ at' = at /\ st' = st /\ files' = files
        /\ world'.channel = world.channel /\ world.saved \subseteq world'.saved
    BY DEF Stays, Grows
  <1>2. Backed(world) => Backed(world')
    BY <1>1 DEF Backed
  <1>3. FilesKept'
    BY <1>1 DEF FilesIInv, FilesKept
  <1>. QED BY <1>1, <1>2, <1>3 DEF FilesIInv

\* It may say one thing more, which is paid for with a failure.
LEMMA StaysSaid ==
    ASSUME Typed, SaidIInv, Stays
    PROVE  SaidIInv'
  <1>1. faults \in Nat /\ faults' \in Nat /\ faults <= faults'
    BY BoundsNat DEF Typed, Stays, FaultsUp
  <1>2. Cardinality(Docs) \in Nat /\ Cardinality(st.prompt_sig) \in Nat
    BY DocsAssumption, FS_CardinalityType, FS_Subset DEF Typed, StTyped
  <1>3. /\ said.complete \in Nat /\ said.prompt \in Nat /\ said.confirmed \in Nat
        /\ said.offer_confirmed \in Nat /\ said.activated \in Nat
    BY DEF Typed, SaidTyped
  <1>4. at' = at /\ st' = st
    BY DEF Stays
  <1>5. Once(st.complete_sent) \in Nat /\ Once(st.confirmed_sent) \in Nat
        /\ Once(st.offer_confirmed_sent) \in Nat
    BY DEF Once
  <1>6. CASE said' = said
    BY <1>1, <1>2, <1>3, <1>4, <1>5, <1>6 DEF SaidIInv
  <1>7. CASE SaysMore(said') /\ faults < faults'
    <2>1. /\ said'.complete \in Nat /\ said'.complete <= said.complete + 1
          /\ said'.confirmed \in Nat /\ said'.confirmed <= said.confirmed + 1
          /\ said'.offer_confirmed \in Nat /\ said'.offer_confirmed <= said.offer_confirmed + 1
          /\ said.offer_confirmed <= said'.offer_confirmed
          /\ said'.prompt \in Nat /\ said'.prompt <= said.prompt + 1
          /\ said'.unasked = said.unasked
      BY <1>7 DEF SaysMore, SaidTyped
    <2>2. /\ (said.complete <= faults + Once(st.complete_sent))'
          /\ (said.confirmed <= faults + Once(st.confirmed_sent))'
          /\ (said.offer_confirmed <= faults + Once(st.offer_confirmed_sent))'
      BY <1>1, <1>3, <1>4, <1>5, <1>7, <2>1 DEF SaidIInv
    <2>3. /\ (st.prompt_sig = {} => said.prompt <= faults)'
          /\ (st.prompt_sig # {} => said.prompt + Cardinality(st.prompt_sig)
                                       <= faults + Cardinality(Docs) + 1)'
      BY <1>1, <1>2, <1>3, <1>4, <1>7, <2>1 DEF SaidIInv
    <2>4. /\ (said.activated > 0 => said.offer_confirmed > 0 \/ faults > 0)'
          /\ (st.offer_confirmed_sent /\ MaxSaid > 0 => said.offer_confirmed > 0)'
      BY <1>1, <1>3, <1>4, <1>7, <2>1 DEF SaidIInv
    <2>. QED BY <1>4, <2>1, <2>2, <2>3, <2>4 DEF SaidIInv
  <1>. QED BY <1>6, <1>7 DEF Stays

\* A preview that was sent by a node that broke off is paid for by its failure.
LEMMA StaysShown ==
    ASSUME Typed, ShownIInv, Stays
    PROVE  ShownIInv'
  <1>1. faults \in Nat /\ faults' \in Nat /\ faults <= faults' /\ MaxOffers \in Nat
    BY BoundsNat DEF Typed, Stays, FaultsUp
  <1>2. \A n \in 0 .. MaxOffers :
            /\ said.preview[n] \in Nat /\ said'.preview[n] \in Nat
            /\ said'.preview[n] + faults <= said.preview[n] + faults'
    <2>1. \A n \in 0 .. MaxOffers : said.preview[n] \in Nat
      BY DEF Typed, SaidTyped
    <2>2. CASE said' = said
      BY <1>1, <2>1, <2>2
    <2>3. CASE SaysMore(said') /\ faults < faults'
      BY <1>1, <2>1, <2>3, SMTT(30) DEF SaysMore, SaidTyped
    <2>. QED BY <2>2, <2>3 DEF Stays
  <1>3. world.offers \in 0 .. MaxOffers /\ world'.offers \in 0 .. MaxOffers /\ world.offers <= world'.offers
    BY DEF Typed, WorldTyped, Stays, Grows
  <1>4. st.preview \in 0 .. MaxOffers + 1 /\ st.offers \in 0 .. MaxOffers /\ st.reg_offers \in 0 .. MaxOffers
    BY DEF Typed, StTyped
  <1>5. at' = at /\ st' = st
    BY DEF Stays
  <1>6. (\A n \in 0 .. MaxOffers : said.preview[n] <= faults + 1)'
    BY <1>1, <1>2, <1>5 DEF ShownIInv
  <1>7. (\A n \in 0 .. MaxOffers : n >= world.offers /\ n # st.preview => said.preview[n] <= faults)'
    BY <1>1, <1>2, <1>3, <1>5 DEF ShownIInv
  <1>8. (at = "offer_view_send" /\ st.offers # st.preview => said.preview[st.offers] <= faults)'
    BY <1>1, <1>2, <1>4, <1>5 DEF ShownIInv
  <1>9. (at = "offer_view_send" /\ st.offers < st.preview =>
            \A n \in 0 .. MaxOffers : said.preview[n] <= faults)'
    BY <1>1, <1>2, <1>5 DEF ShownIInv
  <1>10. (st.preview = Unseen => \A n \in 0 .. MaxOffers : said.preview[n] <= faults)'
    BY <1>1, <1>2, <1>5 DEF ShownIInv, Unseen
  <1>11. /\ (st.preview # Unseen => st.preview <= world.offers)'
         /\ (st.offers <= world.offers /\ st.reg_offers <= world.offers)'
    BY <1>1, <1>3, <1>4, <1>5 DEF ShownIInv, Unseen
  <1>. QED BY <1>5, <1>6, <1>7, <1>8, <1>9, <1>10, <1>11 DEF ShownIInv, Unseen

\* Where a run stays, so does what it knows of the fee.
LEMMA StaysPaid ==
    ASSUME PaidIInv, Stays
    PROVE  PaidIInv'
  BY DEF PaidIInv, Stays

\* Where a run stays and the step with it, the bound on the step stands.
LEMMA StaysSteps ==
    ASSUME Typed, StepsIInv, Stays, world'.step = world.step
    PROVE  StepsIInv'
  <1>1. faults \in Nat /\ faults' \in Nat /\ faults <= faults'
    BY BoundsNat DEF Typed, Stays, FaultsUp
  <1>. QED BY <1>1 DEF StepsIInv, Stays, Grows

\* The parts a step that stays keeps, but for the mail and the step
LEMMA StaysKeeps ==
    ASSUME Typed, FilesIInv, PaidIInv, SaidIInv, ShownIInv, Stays
    PROVE  FilesIInv' /\ PaidIInv' /\ SaidIInv' /\ ShownIInv'
  BY StaysFiles, StaysPaid, StaysSaid, StaysShown

-----------------------------------------------------------------------------
(* Nodes *)

\* A backend that did nothing has forgotten nothing.
LEMMA GrowsSame == ASSUME Typed PROVE Grows(world)
  <1>1. WorldTyped(world) /\ world.offers \in Nat
    BY BoundsNat DEF Typed, WorldTyped
  <1>. QED BY <1>1 DEF Grows

\* A node that says nothing says nothing twice.
LEMMA SaysMoreSame == ASSUME Typed PROVE SaysMore(said)
  <1>1. SaidTyped(said)
    BY DEF Typed
  <1>2. /\ said.prompt \in Nat /\ said.complete \in Nat /\ said.confirmed \in Nat
        /\ said.offer_confirmed \in Nat
        /\ \A n \in 0 .. MaxOffers : said.preview[n] \in Nat
    BY <1>1 DEF SaidTyped
  <1>. QED BY <1>1, <1>2 DEF SaysMore

\* A node that broke off
LEMMA BrokenOff ==
    ASSUME Typed, NEW p, NEW w, NEW r, NEW s, NEW f \in Nat,
           Raises(p, w, r, s, f), Grows(w), SaysMore(s), r \subseteq Reasons, UNCHANGED files
    PROVE  /\ Stays
           /\ StTyped(st') /\ WorldTyped(world') /\ SaidTyped(said') /\ faults' \in 0 .. MaxFaults
           /\ rem' \subseteq Reasons
           /\ world' \in {world, w} /\ at' = at /\ st' = st /\ inp' \in {p, NoInput}
           /\ faults' = faults + f + 1
  <1>1. world' \in {world, w} /\ rem' \in {rem, r} /\ said' \in {said, s}
    BY DEF Raises
  <1>2. faults' = faults + f + 1 /\ faults' \in 0 .. MaxFaults /\ faults < faults' /\ faults <= faults'
    BY BoundsNat DEF Raises, Tolerates, Typed
  <1>3. Grows(world') /\ SaysMore(said')
    <2>1. Grows(world) /\ SaysMore(said)
      BY GrowsSame, SaysMoreSame
    <2>2. Grows(world')
      BY <1>1, <2>1
    <2>3. SaysMore(said')
      BY <1>1, <2>1
    <2>. QED BY <2>2, <2>3
  <1>4. at' = at /\ st' = st /\ inp' \in {p, NoInput}
    BY DEF Raises
  <1>5. Stays
    BY <1>2, <1>3, <1>4 DEF Stays, FaultsUp
  <1>6. WorldTyped(world') /\ SaidTyped(said') 
    BY <1>3 DEF Grows, SaysMore
  <1>7. rem' \subseteq Reasons
    BY <1>1 DEF Typed, SetsTyped
  <1>8. StTyped(st')
    BY <1>4 DEF Typed
  <1>. QED BY <1>1, <1>2, <1>4, <1>5, <1>6, <1>7, <1>8

\* A node that ran to its end
LEMMA RanThrough ==
    ASSUME Typed, NEW next, NEW new, NEW w, NEW r, NEW s, NEW f \in Nat,
           RunsTo(next, new, w, r, s, f), StTyped(new), WorldTyped(w), SaidTyped(s), r \subseteq Reasons
    PROVE  /\ StTyped(st') /\ WorldTyped(world') /\ SaidTyped(said') /\ faults' \in 0 .. MaxFaults
           /\ rem' \subseteq Reasons
           /\ at' = next /\ st' = new /\ world' = w /\ said' = s /\ inp' = NoInput
           /\ faults' = faults + f /\ FaultsUp
  <1>1. faults' = faults + f /\ faults' \in 0 .. MaxFaults /\ faults <= faults'
    BY BoundsNat DEF RunsTo, Tolerates, Typed
  <1>. QED BY <1>1 DEF RunsTo, FaultsUp

\* The state a plain node leaves behind, and where it goes
CalmFields(new) ==
    /\ StTyped(new)
    /\ new.extras = st.extras /\ new.missing = st.missing /\ new.uploaded = st.uploaded
    /\ new.paid = st.paid
    /\ new.complete_sent = st.complete_sent /\ new.confirmed_sent = st.confirmed_sent
    /\ new.offer_confirmed_sent = st.offer_confirmed_sent
    /\ new.prompt_sig = st.prompt_sig
    /\ new.preview = st.preview /\ new.reg_offers = st.reg_offers /\ new.offers = st.offers

CalmState(new) == CalmFields(new) /\ new.step = st.step

CalmMove(n, next) ==
    /\ n \notin Uploading /\ n # "offers_fetch"
    /\ next \notin {"documents_complete", "offer_view_send"}
    /\ next \in Looping => n \in Looping
    /\ \/ Rank(n) <= 5 /\ Rank(n) <= Rank(next)
       \/ Rank(n) = 6 /\ Rank(next) = 6 /\ (n = "payment_await" => next = "payment_await")
       \/ Rank(n) = 7 /\ Rank(next) = 7

\* A state left as it is, is calm.
LEMMA CalmStateSame == ASSUME Typed PROVE CalmState(st)
  BY DEF Typed, CalmState, CalmFields

\* What holds after it, but for the step it may have reported
LEMMA CalmRuns ==
    ASSUME IInv, NEW next, NEW new, NEW w, NEW r, NEW f \in Nat,
           RunsTo(next, new, w, r, said, f), CalmFields(new), CalmMove(at, next),
           Grows(w), r \subseteq Reasons, files' \ Docs \subseteq files \ Docs
    PROVE  /\ FilesIInv' /\ PaidIInv' /\ SaidIInv' /\ ShownIInv'
           /\ StTyped(st') /\ WorldTyped(world') /\ SaidTyped(said') /\ faults' \in 0 .. MaxFaults
           /\ rem' \subseteq Reasons
           /\ at' = next /\ st' = new /\ world' = w /\ inp' = NoInput /\ FaultsUp
  <1>. Typed /\ FilesIInv /\ PaidIInv /\ SaidIInv /\ ShownIInv
    BY DEF IInv
  <1>1. StTyped(new) /\ WorldTyped(w) /\ SaidTyped(said)
    BY DEF CalmFields, Grows, Typed
  <1>2. /\ StTyped(st') /\ WorldTyped(world') /\ SaidTyped(said') /\ faults' \in 0 .. MaxFaults
        /\ rem' \subseteq Reasons
        /\ at' = next /\ st' = new /\ world' = w /\ said' = said /\ inp' = NoInput
        /\ faults' = faults + f /\ FaultsUp
    BY <1>1, RanThrough
  <1>3. Rank(at) \in 0 .. 7 /\ Rank(next) \in 0 .. 7
    BY RankNat
  <1>4. CalmFiles
    BY <1>2 DEF CalmFiles, CalmFields, CalmMove, Grows
  <1>5. CalmPaid
    BY <1>2, <1>3 DEF CalmPaid, CalmFields, CalmMove
  <1>6. CalmSaid
    BY <1>2, <1>3 DEF CalmSaid, CalmFields, CalmMove
  <1>7. CalmShown
    BY <1>2, <1>3 DEF CalmShown, CalmFields, CalmMove, Grows, WorldTyped
  <1>. QED BY <1>2, <1>4, <1>5, <1>6, <1>7, CalmFilesKeeps, CalmPaidKeeps, CalmSaidKeeps, CalmShownKeeps

\* A run that moves on between nodes that report nothing keeps the bound on the step.
LEMMA CalmRunsSteps ==
    ASSUME IInv, NEW next, CalmMove(at, next),
           at' = next, world'.step = world.step, st'.step = st.step, st'.paid = st.paid, FaultsUp
    PROVE  StepsIInv'
  <1>1. Rank(at) \in 0 .. 7 /\ Rank(next) \in 0 .. 7
    BY RankNat
  <1>2. CalmSteps
    BY <1>1 DEF CalmSteps, CalmMove
  <1>. QED BY <1>2, CalmStepsKeeps DEF IInv

\* A step that is reported on the way to the fee
LEMMA TrackedSteps ==
    ASSUME IInv, NEW n \in 0 .. 5, Rank(at) <= 5, Rank(at) <= Rank(at'), Rank(at') <= 5 => n <= Rank(at'),
           world'.step \in {world.step, n}
    PROVE  StepsIInv'
  <1>1. Rank(at) \in 0 .. 7 /\ Rank(at') \in 0 .. 7 /\ world.step \in 0 .. 8
    BY RankNat DEF IInv, Typed, WorldTyped
  <1>2. world.step <= Rank(at)
    BY DEF IInv, StepsIInv
  <1>3. world'.step <= 6
    BY <1>1, <1>2
  <1>4. Rank(at') <= 5 => world'.step <= Rank(at')
    BY <1>1, <1>2
  <1>. QED BY <1>3, <1>4 DEF StepsIInv

-----------------------------------------------------------------------------
(* Payloads, mail and claims *)

Keys == Docs \cup {"checklist", "settle"}

\* A payload that a parked run may be resumed with
Known(p) == p \in Payloads /\ (p \in {inp} \cup mail \/ p \notin Ticks)

\* A resumed node has a payload that was known.
LEMMA ResumedWith ==
    ASSUME Typed, MailIInv, NEW n, NEW p, NEW S, Resumed(n, p, S),
           S \subseteq Payloads, S \cap Ticks = {}
    PROVE  /\ at = n /\ mail' \subseteq mail /\ Known(p)
           /\ Rank(n) <= 4 => p \notin Ticks
           /\ Rank(n) <= 5 => p # "poll"
           /\ p \in S \cup Synthetic \/ p = inp
  <1>1. at = n
    BY DEF Resumed, At
  <1>2. p \in {inp} \cup S \cup mail /\ mail' \subseteq mail
    BY DEF Resumed
  <1>3. mail \subseteq Payloads /\ inp \in Payloads /\ mail \subseteq Synthetic
    BY DEF Typed, SetsTyped, Payloads
  <1>4. Known(p)
    BY <1>2, <1>3 DEF Known
  <1>5. Rank(n) <= 4 => p \notin Ticks
    BY <1>1, <1>2 DEF MailIInv
  <1>6. Rank(n) <= 5 => p # "poll"
    BY <1>1, <1>2 DEF MailIInv, Ticks
  <1>. QED BY <1>1, <1>2, <1>3, <1>4, <1>5, <1>6

\* The type invariant after a step, from the types of what the step assigns.
LEMMA PartsTyped ==
    ASSUME StTyped(st'), WorldTyped(world'), SaidTyped(said'), faults' \in 0 .. MaxFaults,
           rem' \subseteq Reasons, inp' \in Payloads, mail' \subseteq mail, claims' \subseteq Keys, Typed
    PROVE  Typed'
  BY DEF Typed, SetsTyped, Keys

\* The claims a step starts from, and the reminders.
LEMMA TypedKeys == ASSUME Typed PROVE claims \subseteq Keys /\ rem \subseteq Reasons
  BY DEF Typed, SetsTyped, Keys

\* A node that was reached without an answer has nothing to interpret.
LEMMA NoInputKnown == Known(NoInput)
  BY DEF Known, Payloads, NoInput, Ticks

\* Nothing new is under way.
LEMMA MailKeeps ==
    ASSUME MailIInv, NEW p, Known(p), mail' \subseteq mail, inp' \in {p, NoInput},
           Rank(at') <= 5 => Rank(at) <= Rank(at')
    PROVE  MailIInv'
  <1>1. NoInput \notin Ticks
    BY DEF NoInput, Ticks
  <1>2. CalmMail
    BY <1>1 DEF CalmMail, Known
  <1>. QED BY <1>2, CalmMailKeeps

-----------------------------------------------------------------------------
(* A node that broke off leaves the invariant as it was. *)

\* A node that breaks off before its state is saved (Raises) leaves all but the journey step as it was.
LEMMA BrokenParts ==
    ASSUME IInv, NEW p, Known(p), NEW w, NEW r, NEW s, NEW f \in Nat,
           Raises(p, w, r, s, f), Grows(w), SaysMore(s), r \subseteq Reasons, UNCHANGED files,
           mail' \subseteq mail, claims' \subseteq Keys
    PROVE  /\ Typed' /\ FilesIInv' /\ PaidIInv' /\ SaidIInv' /\ ShownIInv' /\ MailIInv'
           /\ Stays /\ faults' = faults + f + 1 /\ at' = at /\ st' = st /\ world' \in {world, w}
  <1>. Typed /\ FilesIInv /\ PaidIInv /\ SaidIInv /\ ShownIInv /\ MailIInv
    BY DEF IInv
  <1>1. /\ Stays
        /\ StTyped(st') /\ WorldTyped(world') /\ SaidTyped(said') /\ faults' \in 0 .. MaxFaults
        /\ rem' \subseteq Reasons
        /\ world' \in {world, w} /\ at' = at /\ st' = st /\ inp' \in {p, NoInput}
        /\ faults' = faults + f + 1
    BY BrokenOff
  <1>2. inp' \in Payloads
    BY <1>1, NoInputKnown DEF Known
  <1>3. Typed'
    BY <1>1, <1>2, PartsTyped
  <1>4. Rank(at) <= Rank(at')
    BY <1>1, RankNat
  <1>5. MailIInv'
    BY <1>1, <1>4, MailKeeps
  <1>. QED BY <1>1, <1>3, <1>5, StaysKeeps

\* A node that breaks off having recorded no step.
LEMMA BrokenKeeps ==
    ASSUME IInv, NEW p, Known(p), NEW w, NEW r, NEW s, NEW f \in Nat,
           Raises(p, w, r, s, f), Grows(w), SaysMore(s), r \subseteq Reasons, UNCHANGED files,
           mail' \subseteq mail, claims' \subseteq Keys, w.step = world.step
    PROVE  IInv'
  <1>1. /\ Typed' /\ FilesIInv' /\ PaidIInv' /\ SaidIInv' /\ ShownIInv' /\ MailIInv'
        /\ Stays /\ world' \in {world, w}
    BY BrokenParts
  <1>2. StepsIInv'
    BY <1>1, StaysSteps DEF IInv
  <1>. QED BY <1>1, <1>2 DEF IInv

\* The step a node reports before it breaks off
Reports(n) ==
    /\ Rank(at) <= 5 => n <= Rank(at)
    /\ Rank(at) = 6 => n <= 6 \/ (at = "payment_await" /\ n = 7)
    /\ Rank(at) = 7 => at = "offers_fetch" /\ world.channel = "whatsapp"

\* A node that breaks off after the backend recorded its step: the run's own record stays behind.
LEMMA BrokenTracks ==
    ASSUME IInv, NEW p, Known(p), NEW w, NEW r, NEW s, NEW f \in Nat, NEW n \in 0 .. 8,
           Raises(p, w, r, s, f), Grows(w), SaysMore(s), r \subseteq Reasons, UNCHANGED files,
           mail' \subseteq mail, claims' \subseteq Keys, w.step \in {world.step, n}, Reports(n)
    PROVE  IInv'
  <1>1. /\ Typed' /\ FilesIInv' /\ PaidIInv' /\ SaidIInv' /\ ShownIInv' /\ MailIInv'
        /\ Stays /\ faults' = faults + f + 1 /\ at' = at /\ st' = st /\ world' \in {world, w}
    BY BrokenParts
  <1>2. ASSUME world'.step = world.step PROVE StepsIInv'
    BY <1>1, <1>2, StaysSteps DEF IInv
  <1>3. ASSUME world'.step = n PROVE StepsIInv'
    <2>1. Rank(at) \in 0 .. 7 /\ (at \in Billing <=> Rank(at) = 6)
      BY RankNat, RankOf
    <2>2. faults' \in Nat /\ faults' > 0
      BY <1>1, BoundsNat DEF IInv, Typed
    <2>3. (Rank(at) <= 5 => world.step <= Rank(at))'
      BY <1>1, <1>3, <2>1 DEF Reports
    <2>4. Rank(at) = 6 => world'.step <= 6 \/ (at' = "payment_await" /\ world'.step = 7)
      BY <1>1, <1>3 DEF Reports
    <2>5. Rank(at) = 7 => at' = "offers_fetch" /\ world'.channel = "whatsapp"
      BY <1>1 DEF Reports, Stays, Grows
    <2>. QED BY <1>1, <2>1, <2>2, <2>3, <2>4, <2>5 DEF StepsIInv
  <1>4. StepsIInv'
    BY <1>1, <1>2, <1>3
  <1>. QED BY <1>1, <1>4 DEF IInv

-----------------------------------------------------------------------------
(* Nodes that only steer *)

\* They ran to their end.
LEMMA CalmRunsKeeps ==
    ASSUME IInv, NEW next, NEW new, NEW w, NEW r, NEW f \in Nat,
           RunsTo(next, new, w, r, said, f), CalmState(new), CalmMove(at, next),
           Grows(w), w.step = world.step, r \subseteq Reasons, files' \ Docs \subseteq files \ Docs,
           mail' \subseteq mail, claims' \subseteq Keys
    PROVE  IInv'
  <1>1. /\ FilesIInv' /\ PaidIInv' /\ SaidIInv' /\ ShownIInv'
        /\ StTyped(st') /\ WorldTyped(world') /\ SaidTyped(said') /\ faults' \in 0 .. MaxFaults
        /\ rem' \subseteq Reasons
        /\ at' = next /\ st' = new /\ world' = w /\ inp' = NoInput /\ FaultsUp
    BY CalmRuns DEF CalmState
  <1>5. StepsIInv'
    BY <1>1, CalmRunsSteps DEF CalmState, CalmFields
  <1>2. Rank(at') <= 5 => Rank(at) <= Rank(at')
    BY <1>1, RankNat DEF CalmMove
  <1>3. MailIInv'
    BY <1>1, <1>2, NoInputKnown, MailKeeps DEF IInv
  <1>4. Typed'
    BY <1>1, PartsTyped, NoInputKnown DEF IInv, Known
  <1>. QED BY <1>1, <1>3, <1>4, <1>5 DEF IInv

\* A node that sends nothing and uploads nothing (Node), from the fields it assigns and the edge it takes.
LEMMA NodeKeeps ==
    ASSUME IInv, NEW n, NEW next, NEW new, NEW w, NEW r, NEW f \in Nat,
           Node(n, next, new, w, r, said, f), CalmState(new), CalmMove(n, next),
           Grows(w), w.step = world.step, r \subseteq Reasons
    PROVE  IInv'
  <1>. Typed
    BY DEF IInv
  <1>1. at = n /\ mail' \subseteq mail /\ claims' \subseteq Keys /\ files' = files
    BY TypedKeys DEF Node, At
  <1>2. CASE RunsTo(next, new, w, r, said, f)
    BY <1>1, <1>2, CalmRunsKeeps
  <1>3. CASE Raises(NoInput, w, r, said, f)
    BY <1>1, <1>3, BrokenKeeps, NoInputKnown, SaysMoreSame
  <1>. QED BY <1>2, <1>3 DEF Node

\* A node that touches only its own state (Pure).
LEMMA PureKeeps ==
    ASSUME IInv, NEW n, NEW next, NEW new, NEW f \in Nat,
           Pure(n, next, new, f), CalmState(new), CalmMove(n, next)
    PROVE  IInv'
  <1>1. Grows(world) /\ rem \subseteq Reasons
    BY GrowsSame, TypedKeys DEF IInv
  <1>. QED BY <1>1, NodeKeeps DEF Pure

\* Waiting nodes
LEMMA ThenKeeps ==
    ASSUME IInv, NEW p, Known(p), NEW next, NEW new, NEW w, NEW r, NEW f \in Nat,
           Then(p, next, new, w, r, said, f, {}), mail' \subseteq mail, claims' \subseteq Keys,
           CalmState(new), CalmMove(at, next), Grows(w), w.step = world.step, r \subseteq Reasons
    PROVE  IInv'
  <1>1. CASE RunsTo(next, new, w, r, said, f) /\ files' = files \cup {}
    BY <1>1, CalmRunsKeeps
  <1>2. CASE Raises(p, w, r, said, f) /\ UNCHANGED files
    BY <1>2, BrokenKeeps, SaysMoreSame DEF IInv
  <1>. QED BY <1>1, <1>2 DEF Then

\* A wait that parks again with a changed state (Reparks).
LEMMA ReparksKeeps ==
    ASSUME IInv, NEW new, Reparks(new), mail' \subseteq mail, CalmState(new), CalmMove(at, at)
    PROVE  IInv'
  <1>1. Grows(world) /\ rem \subseteq Reasons /\ claims' \subseteq Keys /\ files' = files
    BY GrowsSame, TypedKeys DEF IInv, Reparks
  <1>. QED BY <1>1, CalmRunsKeeps DEF Reparks

\* A wait that answers a question and parks again (Answers).
LEMMA AnswersKeeps ==
    ASSUME IInv, NEW p, p \notin Ticks, NEW new, Answers(p, new), mail' \subseteq mail,
           CalmState(new), CalmMove(at, at)
    PROVE  IInv'
  <1>1. Grows(world) /\ rem \subseteq Reasons /\ claims' \subseteq Keys /\ files' = files
    BY GrowsSame, TypedKeys DEF IInv, Answers
  <1>2. RunsTo(at, new, world, rem, said, 0)
    BY DEF Answers
  <1>. QED BY <1>1, <1>2, CalmRunsKeeps

\* What is known of any node that ran to its end
LEMMA RunsParts ==
    ASSUME IInv, NEW next, NEW new, NEW w, NEW r, NEW s, NEW f \in Nat,
           RunsTo(next, new, w, r, s, f), StTyped(new), WorldTyped(w), SaidTyped(s), r \subseteq Reasons,
           mail' \subseteq mail, claims' \subseteq Keys, Rank(next) <= 5 => Rank(at) <= Rank(next)
    PROVE  /\ Typed' /\ MailIInv'
           /\ at' = next /\ st' = new /\ world' = w /\ said' = s
           /\ faults' = faults + f /\ FaultsUp /\ faults \in Nat /\ faults' \in Nat
  <1>. Typed
    BY DEF IInv
  <1>1. /\ StTyped(st') /\ WorldTyped(world') /\ SaidTyped(said') /\ faults' \in 0 .. MaxFaults
        /\ rem' \subseteq Reasons
        /\ at' = next /\ st' = new /\ world' = w /\ said' = s /\ inp' = NoInput
        /\ faults' = faults + f /\ FaultsUp
    BY RanThrough
  <1>2. MailIInv'
    BY <1>1, NoInputKnown, MailKeeps DEF IInv
  <1>3. Typed'
    BY <1>1, PartsTyped, NoInputKnown DEF Known
  <1>4. faults \in Nat /\ faults' \in Nat
    BY <1>1, BoundsNat DEF Typed
  <1>. QED BY <1>1, <1>2, <1>3, <1>4

\* Steps of the state alone
LEMMA SteeringFields ==
    ASSUME Typed, NEW t \in BOOLEAN
    PROVE  /\ CalmState([st EXCEPT !.token = t])
           /\ CalmState([st EXCEPT !.financials_received = t])
           /\ CalmState([st EXCEPT !.settle_prompted = t])
           /\ CalmState([st EXCEPT !.cr_ref = t])
           /\ \A c : CalmState([st EXCEPT !.contact = c])
  BY DEF Typed, StTyped, CalmState, CalmFields, NewState

-----------------------------------------------------------------------------
(* Progress *)

\* What the backend is told
LEMMA ProgressedGrows ==
    ASSUME Typed, NEW w, Grows(w), NEW n \in 0 .. 8, NEW f
    PROVE  LET v == Progressed(w, n, f)
           IN  /\ Grows(v) /\ v.step \in {w.step, n} /\ v.saved = w.saved /\ v.offers = w.offers
               /\ world.channel = "whatsapp" /\ n > st.step /\ f = 0 => v.step = n
               /\ world.channel # "whatsapp" \/ f # 0 \/ ~(n > st.step) => v.step = w.step
  <1>1. CASE Tracks(n) /\ f = 0
    BY <1>1 DEF Progressed, Tracks, Grows, WorldTyped, NewLead
  <1>2. CASE ~(Tracks(n) /\ f = 0)
    BY <1>2 DEF Progressed, Tracks
  <1>. QED BY <1>1, <1>2

\* What the run records of it
LEMMA RecordedState ==
    ASSUME Typed, NEW new, StTyped(new), NEW n \in 0 .. 8, NEW f
    PROVE  LET rec == Recorded(new, n, f)
           IN  /\ StTyped(rec)
               /\ rec.status = new.status /\ rec.ready = new.ready /\ rec.proceed = new.proceed
               /\ rec.extras = new.extras /\ rec.missing = new.missing /\ rec.uploaded = new.uploaded
               /\ rec.paid = new.paid
               /\ rec.complete_sent = new.complete_sent /\ rec.confirmed_sent = new.confirmed_sent
               /\ rec.offer_confirmed_sent = new.offer_confirmed_sent
               /\ rec.prompt_sig = new.prompt_sig
               /\ rec.preview = new.preview /\ rec.reg_offers = new.reg_offers /\ rec.offers = new.offers
               /\ rec.step = IF Tracks(n) /\ f = 0 THEN n ELSE new.step
  <1>1. CASE Tracks(n) /\ f = 0
    BY <1>1 DEF Recorded, StTyped, NewState
  <1>2. CASE ~(Tracks(n) /\ f = 0)
    BY <1>2 DEF Recorded
  <1>. QED BY <1>1, <1>2

\* The step that _track_journey_step writes into the state is none of the fields of the calm parts.
LEMMA RecordedCalm ==
    ASSUME Typed, NEW new, CalmFields(new), NEW n \in 0 .. 8, NEW f
    PROVE  CalmFields(Recorded(new, n, f))
  <1>1. StTyped(new)
    BY DEF CalmFields
  <1>2. PICK rec : rec = Recorded(new, n, f)
    OBVIOUS
  <1>. QED BY <1>1, <1>2, RecordedState DEF CalmFields

\* A waiting node of the intake that reports its step
LEMMA TracksKeeps ==
    ASSUME IInv, NEW p, Known(p), NEW next, NEW new, NEW r, NEW f \in {0, 1}, NEW n \in 0 .. 5,
           \/ RunsTo(next, new, Progressed(world, n, f), r, said, f)
           \/ Raises(p, Progressed(world, n, f), r, said, f),
           mail' \subseteq mail, claims' \subseteq Keys, UNCHANGED files, r \subseteq Reasons,
           CalmFields(new), CalmMove(at, next), Rank(at) <= 5, n <= Rank(at), Rank(next) <= 5 => n <= Rank(next)
    PROVE  IInv'
  <1>1. PICK w : w = Progressed(world, n, f)
    OBVIOUS
  <1>2. Grows(w) /\ w.step \in {world.step, n}
    BY <1>1, ProgressedGrows, GrowsSame DEF IInv
  <1>3. CASE RunsTo(next, new, w, r, said, f)
    <2>1. /\ FilesIInv' /\ PaidIInv' /\ SaidIInv' /\ ShownIInv'
          /\ StTyped(st') /\ WorldTyped(world') /\ SaidTyped(said') /\ faults' \in 0 .. MaxFaults
          /\ rem' \subseteq Reasons
          /\ at' = next /\ st' = new /\ world' = w /\ inp' = NoInput /\ FaultsUp
      BY <1>2, <1>3, CalmRuns
    <2>2. Rank(at) <= Rank(at')
      BY <2>1, RankNat DEF CalmMove
    <2>3. MailIInv'
      BY <2>1, <2>2, NoInputKnown, MailKeeps DEF IInv
    <2>4. Typed'
      BY <2>1, PartsTyped, NoInputKnown DEF IInv, Known
    <2>5. StepsIInv'
      BY <1>2, <2>1, <2>2, TrackedSteps
    <2>. QED BY <2>1, <2>3, <2>4, <2>5 DEF IInv
  <1>4. CASE Raises(p, w, r, said, f)
    <2>1. Reports(n)
      BY RankNat DEF Reports
    <2>. QED BY <1>2, <1>4, <2>1, BrokenTracks, SaysMoreSame DEF IInv
  <1>. QED BY <1>1, <1>3, <1>4

-----------------------------------------------------------------------------
(* The edges of the graph that change no rank in the wrong way *)

\* The edges of the intake never lead back, nor into the documents loop.
LEMMA IntakeMoves ==
    /\ CalmMove("entry_registration_check", "campaign_send")
    /\ CalmMove("campaign_send", "campaign_await")
    /\ CalmMove("campaign_await", "campaign_await")
    /\ CalmMove("campaign_await", "check_contact_send")
    /\ CalmMove("campaign_await", "declined")
    /\ CalmMove("check_contact_send", "check_contact_await")
    /\ \A next \in {"channel_session_resume", "channel_session_first", "domain_blocked",
                    "channel_session_create_user", "complete_onboarding_send"} :
           CalmMove("check_contact_await", next)
    /\ CalmMove("channel_session_first", "consent_send")
    /\ CalmMove("channel_session_resume", "resume_status_fetch")
    /\ CalmMove("channel_session_second", "business_email_send")
    /\ CalmMove("complete_onboarding_send", "channel_session_second")
    /\ CalmMove("business_email_send", "business_email_await")
    /\ CalmMove("business_email_conflict_send", "business_email_await")
    /\ \A next \in {"consent_send", "business_email_await", "business_email_conflict_send"} :
           CalmMove("business_email_await", next)
    /\ CalmMove("consent_send", "consent_await")
    /\ CalmMove("consent_await", "consent_await")
    /\ CalmMove("financials_send", "financials_await")
    /\ CalmMove("financials_await", "financials_await")
    /\ CalmMove("prequalify_wait_await", "prequalify_wait_await")
    /\ CalmMove("prequalify_wait_await", "not_pre_qualified")
  BY SMTT(30) DEF CalmMove, Rank, Entry, Contacting, Consenting, Reporting, Expecting, Looping, Billing, Uploading

\* Where a returning SME goes on
Resumptions ==
    {"registered_route_send", "consent_send", "business_email_send", "financials_send",
     "documents_list_fetch", "business_details_fetch", "offers_fetch", "offer_confirmed",
     "resume_offer_expired", "activated", "resume_rejected", "resume_application_open",
     "not_eligible", "not_qualified"}

\* The edges that resume_status_fetch chooses among.
LEMMA ResumeMoves == \A next \in Resumptions : CalmMove("resume_status_fetch", next)
  BY DEF Resumptions, CalmMove, Rank, Entry, Contacting, Consenting, Reporting, Expecting, Looping,
         Billing, Uploading

\* The edges from the closing messages to the end.
LEMMA EndMoves ==
    \A n \in {"declined", "domain_blocked", "registered_route_send", "resume_rejected",
              "resume_offer_expired", "resume_application_open", "not_eligible", "not_qualified",
              "not_pre_qualified"} : CalmMove(n, "end")
  BY DEF CalmMove, Rank, Entry, Contacting, Consenting, Reporting, Expecting, Looping, Billing, Uploading

-----------------------------------------------------------------------------
(* The intake *)

\* The closing messages
LEMMA FarewellKeeps == ASSUME IInv, Farewell PROVE IInv'
  <1>1. CalmState(st)
    BY CalmStateSame DEF IInv
  <1>. QED BY <1>1, PureKeeps, EndMoves
       DEF Farewell, Declined, DomainBlocked, RegisteredRouteSend, ResumeRejected, ResumeOfferExpired,
           ResumeApplicationOpen, NotEligible, NotQualified, NotPreQualified, Ends

\* What the lookup notes
LEMMA RegisteredFields ==
    ASSUME Typed, NEW new, CalmState(new)
    PROVE  LET reg == Registered(new)
           IN  /\ StTyped(reg)
               /\ reg.reg_offers = world.offers
               /\ reg.extras = st.extras /\ reg.missing = st.missing /\ reg.uploaded = st.uploaded
               /\ reg.paid = st.paid /\ reg.step = st.step
               /\ reg.complete_sent = st.complete_sent /\ reg.confirmed_sent = st.confirmed_sent
               /\ reg.offer_confirmed_sent = st.offer_confirmed_sent
               /\ reg.prompt_sig = st.prompt_sig /\ reg.preview = st.preview /\ reg.offers = st.offers
  BY DEF Typed, WorldTyped, StTyped, CalmState, CalmFields, Registered, NewState

\* It notes the offers at hand, none of which was shown yet.
LEMMA RegistersKeeps ==
    ASSUME IInv, NEW n \in Entry, NEW next \in Contacting, NEW new, NEW f \in Nat,
           Pure(n, next, Registered(new), f), CalmState(new)
    PROVE  IInv'
  <1>. Typed /\ FilesIInv /\ PaidIInv /\ SaidIInv /\ ShownIInv /\ StepsIInv
    BY DEF IInv
  <1>. DEFINE reg == Registered(new)
  <1>1. /\ StTyped(reg)
        /\ reg.reg_offers = world.offers
        /\ reg.extras = st.extras /\ reg.missing = st.missing /\ reg.uploaded = st.uploaded
        /\ reg.paid = st.paid /\ reg.step = st.step
        /\ reg.complete_sent = st.complete_sent /\ reg.confirmed_sent = st.confirmed_sent
        /\ reg.offer_confirmed_sent = st.offer_confirmed_sent
        /\ reg.prompt_sig = st.prompt_sig /\ reg.preview = st.preview /\ reg.offers = st.offers
    BY RegisteredFields
  <1>. HIDE DEF reg
  <1>2. Pure(n, next, reg, f)
    BY DEF reg
  <1>3. /\ at = n /\ mail' \subseteq mail /\ claims' \subseteq Keys /\ files' = files
        /\ Grows(world) /\ SaysMore(said) /\ rem \subseteq Reasons
    BY <1>2, TypedKeys, GrowsSame, SaysMoreSame DEF Pure, Node, At
  <1>4. CASE Raises(NoInput, world, rem, said, f)
    BY <1>3, <1>4, BrokenKeeps, NoInputKnown
  <1>5. CASE RunsTo(next, reg, world, rem, said, f)
    <2>1. Rank(n) = 0 /\ Rank(next) = 1
      BY RankOf
    <2>2. /\ Typed' /\ MailIInv'
          /\ at' = next /\ st' = reg /\ world' = world /\ said' = said
          /\ faults' = faults + f /\ FaultsUp /\ faults \in Nat /\ faults' \in Nat
      BY <1>1, <1>3, <1>5, <2>1, RunsParts DEF Typed
    <2>3. next \notin Looping /\ next # "offer_view_send" /\ next # "documents_complete" /\ n \notin Uploading
      BY DEF Entry, Contacting, Looping, Uploading
    <2>4. FilesIInv'
      BY <1>1, <1>3, <2>2, <2>3, CalmFilesKeeps DEF CalmFiles
    <2>5. PaidIInv'
      BY <1>1, <1>3, <2>1, <2>2, CalmPaidKeeps DEF CalmPaid
    <2>6. SaidIInv'
      BY <1>1, <1>3, <2>1, <2>2, <2>3, CalmSaidKeeps DEF CalmSaid
    <2>7. StepsIInv'
      BY <1>1, <1>3, <2>1, <2>2, CalmStepsKeeps DEF CalmSteps
    <2>8. ShownIInv'
      <3>1. st.preview = Unseen /\ st'.preview = Unseen
        BY <1>1, <1>3, <2>1, <2>2 DEF ShownIInv
      <3>2. \A m \in 0 .. MaxOffers : said.preview[m] \in Nat /\ said.preview[m] <= faults
        BY <3>1 DEF ShownIInv, SaidTyped, Typed
      <3>3. \A m \in 0 .. MaxOffers : said'.preview[m] <= faults' /\ said'.preview[m] <= faults' + 1
        BY <2>2, <3>2 DEF FaultsUp
      <3>4. st'.offers <= world'.offers /\ st'.reg_offers <= world'.offers
        BY <1>1, <2>2, BoundsNat DEF ShownIInv, Typed, WorldTyped
      <3>. QED BY <2>2, <2>3, <3>1, <3>3, <3>4 DEF ShownIInv, Unseen
    <2>. QED BY <2>2, <2>4, <2>5, <2>6, <2>7, <2>8 DEF IInv
  <1>. QED BY <1>2, <1>4, <1>5 DEF Pure, Node

\* entry_registration_check
LEMMA EntryRegistrationCheckKeeps == ASSUME IInv, EntryRegistrationCheck PROVE IInv'
  <1>1. CalmState(st)
    BY CalmStateSame DEF IInv
  <1>2. CASE Pure("entry_registration_check", "channel_session_resume", Registered(st), 0)
    BY <1>1, <1>2, RegistersKeeps DEF Entry, Contacting
  <1>3. ASSUME NEW f \in {0, 1}, Pure("entry_registration_check", "campaign_send", st, f) PROVE IInv'
    BY <1>1, <1>3, PureKeeps, IntakeMoves
  <1>. QED BY <1>2, <1>3 DEF EntryRegistrationCheck

\* check_contact_send
LEMMA CheckContactSendKeeps == ASSUME IInv, CheckContactSend PROVE IInv'
  <1>1. PICK c \in {"existing", "blocked", "new"}, f \in {0, 1} :
            Pure("check_contact_send", "check_contact_await",
                 IF world.registered /\ f = 0 THEN Registered([st EXCEPT !.contact = c])
                                              ELSE [st EXCEPT !.contact = c], f)
    BY DEF CheckContactSend
  <1>2. PICK new : new = [st EXCEPT !.contact = c]
    OBVIOUS
  <1>3. CalmState(new)
    BY <1>2, SteeringFields DEF IInv
  <1>4. CASE Pure("check_contact_send", "check_contact_await", Registered(new), f)
    BY <1>3, <1>4, RegistersKeeps DEF Entry, Contacting
  <1>5. CASE Pure("check_contact_send", "check_contact_await", new, f)
    BY <1>3, <1>5, PureKeeps, IntakeMoves
  <1>. QED BY <1>1, <1>2, <1>4, <1>5

\* check_contact_await
LEMMA CheckContactAwaitKeeps == ASSUME IInv, CheckContactAwait PROVE IInv'
  <1>1. CalmState(st)
    BY CalmStateSame DEF IInv
  <1>2. RouteCheckContact \in {"channel_session_resume", "channel_session_first", "domain_blocked",
                               "channel_session_create_user", "complete_onboarding_send"}
    BY DEF RouteCheckContact
  <1>. QED BY <1>1, <1>2, PureKeeps, IntakeMoves DEF CheckContactAwait

\* The three nodes that open a channel session share their handler.
LEMMA SessionsKeep ==
    ASSUME IInv, NEW n, NEW next, Sessions(n, next), CalmMove(n, next)
    PROVE  IInv'
  <1>1. CalmState([st EXCEPT !.token = TRUE]) /\ CalmState([st EXCEPT !.token = FALSE])
    BY SteeringFields DEF IInv
  <1>. QED BY <1>1, PureKeeps DEF Sessions

\* campaign_await
LEMMA CampaignAwaitKeeps == ASSUME IInv, CampaignAwait PROVE IInv'
  <1>1. PICK p \in {"yes", "no", "ask"} \cup Synthetic :
            /\ Resumed("campaign_await", p, {"yes", "no", "ask"})
            /\ \/ p \in Synthetic /\ Reparks(st)
               \/ p = "ask" /\ Answers(p, st)
               \/ /\ p \in {"yes", "no"}
                  /\ Then(p, IF p = "yes" THEN "check_contact_send" ELSE "declined", st, world, rem, said, 0, {})
                  /\ UNCHANGED claims
    BY DEF CampaignAwait
  <1>2. {"yes", "no", "ask"} \subseteq Payloads /\ {"yes", "no", "ask"} \cap Ticks = {}
    BY DEF Payloads, Ticks
  <1>3. at = "campaign_await" /\ mail' \subseteq mail /\ Known(p)
    BY <1>1, <1>2, ResumedWith DEF IInv
  <1>4. CalmState(st) /\ Grows(world) /\ rem \subseteq Reasons /\ claims \subseteq Keys
    BY CalmStateSame, GrowsSame, TypedKeys DEF IInv
  <1>5. CASE p \in Synthetic /\ Reparks(st)
    BY <1>3, <1>4, <1>5, ReparksKeeps, IntakeMoves
  <1>6. CASE p = "ask" /\ Answers(p, st)
    BY <1>3, <1>4, <1>6, AnswersKeeps, IntakeMoves DEF Ticks
  <1>7. CASE p = "yes" /\ Then(p, "check_contact_send", st, world, rem, said, 0, {}) /\ UNCHANGED claims
    BY <1>3, <1>4, <1>7, ThenKeeps, IntakeMoves
  <1>8. CASE p = "no" /\ Then(p, "declined", st, world, rem, said, 0, {}) /\ UNCHANGED claims
    BY <1>3, <1>4, <1>8, ThenKeeps, IntakeMoves
  <1>. QED BY <1>1, <1>5, <1>6, <1>7, <1>8

\* The account: the backend keeps what it has.
LEMMA AccountGrows ==
    ASSUME Typed, NEW s \in JourneyStatuses
    PROVE  Grows(Account(world, s)) /\ Account(world, s).step = world.step
  <1>1. WorldTyped(world) /\ world.offers \in Nat
    BY BoundsNat DEF Typed, WorldTyped
  <1>. QED BY <1>1 DEF Account, Grows, WorldTyped, NewLead

\* complete_onboarding_send
LEMMA CompleteOnboardingSendKeeps == ASSUME IInv, CompleteOnboardingSend PROVE IInv'
  <1>1. CalmState(st) /\ rem \subseteq Reasons
    BY CalmStateSame, TypedKeys DEF IInv
  <1>2. PICK w : w = Account(world, "ONBOARDED")
    OBVIOUS
  <1>3. Grows(w) /\ w.step = world.step
    BY <1>2, AccountGrows DEF IInv, JourneyStatuses
  <1>4. CASE Node("complete_onboarding_send", "channel_session_second", st, w, rem, said, 0)
    BY <1>1, <1>3, <1>4, NodeKeeps, IntakeMoves
  <1>5. CASE Pure("complete_onboarding_send", "channel_session_second", st, 1)
    BY <1>1, <1>5, PureKeeps, IntakeMoves
  <1>. QED BY <1>2, <1>4, <1>5 DEF CompleteOnboardingSend

\* resume_status_fetch
LEMMA ResumeStatusFetchKeeps == ASSUME IInv, ResumeStatusFetch PROVE IInv'
  <1>1. PICK f \in {0, 1}, e \in BOOLEAN :
            LET new == [st EXCEPT !.status = PolledStatus(st.token), !.has_email = e /\ st.token /\ f = 0]
            IN  Pure("resume_status_fetch", RouteResumeByStatus(new), new, f)
    BY DEF ResumeStatusFetch
  <1>2. PolledStatus(st.token) \in JourneyStatuses \cup {"NONE"}
    BY DEF PolledStatus, IInv, Typed, StTyped, WorldTyped
  <1>3. PICK s \in JourneyStatuses \cup {"NONE"}, b \in BOOLEAN :
            s = PolledStatus(st.token) /\ b = (e /\ st.token /\ f = 0)
    BY <1>2
  <1>4. PICK new : new = [st EXCEPT !.status = s, !.has_email = b]
    OBVIOUS
  <1>5. CalmState(new) /\ new.status = s
    BY <1>4 DEF IInv, Typed, StTyped, CalmState, CalmFields, NewState
  <1>6. RouteResumeByStatus(new) \in Resumptions
    BY <1>5 DEF RouteResumeByStatus, Resumptions, JourneyStatuses, QualifiedPlus, Settled, Documenting
  <1>. QED BY <1>1, <1>3, <1>4, <1>5, <1>6, PureKeeps, ResumeMoves

\* consent_send
LEMMA ConsentSendKeeps == ASSUME IInv, ConsentSend PROVE IInv'
  BY CalmStateSame, PureKeeps, IntakeMoves DEF ConsentSend, IInv

\* The nodes that ask for the business e-mail, and campaign_send
LEMMA EmailSendsKeep ==
    ASSUME IInv, BusinessEmailSend \/ BusinessEmailConflictSend \/ CampaignSend
    PROVE  IInv'
  BY CalmStateSame, PureKeeps, IntakeMoves DEF BusinessEmailSend, BusinessEmailConflictSend, CampaignSend, IInv

\* channel_session_create_user: the backend may learn of a new user and record the first step.
LEMMA ChannelSessionCreateUserKeeps == ASSUME IInv, ChannelSessionCreateUser PROVE IInv'
  <1>1. PICK f \in ProgressFaults(1) :
            Node("channel_session_create_user", "business_email_send",
                 Recorded([st EXCEPT !.token = TRUE], 1, f), Progressed(Account(world, "SIGN_UP"), 1, f),
                 rem, said, f)
    BY DEF ChannelSessionCreateUser
  <1>2. f \in {0, 1}
    BY DEF ProgressFaults
  <1>3. PICK w : w = Account(world, "SIGN_UP")
    OBVIOUS
  <1>4. Grows(w) /\ w.step = world.step
    BY <1>3, AccountGrows DEF IInv, JourneyStatuses
  <1>5. PICK v : v = Progressed(w, 1, f)
    OBVIOUS
  <1>6. Grows(v) /\ v.step \in {world.step, 1}
    BY <1>4, <1>5, ProgressedGrows DEF IInv
  <1>13. PICK base : base = [st EXCEPT !.token = TRUE]
    OBVIOUS
  <1>14. CalmFields(base)
    BY <1>13, SteeringFields DEF IInv, CalmState
  <1>7. PICK new : new = Recorded(base, 1, f)
    OBVIOUS
  <1>8. CalmFields(new)
    BY <1>2, <1>7, <1>14, RecordedCalm DEF IInv
  <1>9. /\ at = "channel_session_create_user" /\ mail' \subseteq mail /\ claims' \subseteq Keys
        /\ files' = files /\ rem \subseteq Reasons /\ SaysMore(said)
    BY <1>1, TypedKeys, SaysMoreSame DEF Node, At, IInv
  <1>10. /\ Rank("channel_session_create_user") = 1 /\ Rank("business_email_send") = 2
         /\ CalmMove("channel_session_create_user", "business_email_send")
    BY DEF CalmMove, Rank, Entry, Contacting, Consenting, Looping, Uploading
  <1>11. CASE RunsTo("business_email_send", new, v, rem, said, f)
    <2>1. /\ FilesIInv' /\ PaidIInv' /\ SaidIInv' /\ ShownIInv'
          /\ StTyped(st') /\ WorldTyped(world') /\ SaidTyped(said') /\ faults' \in 0 .. MaxFaults
          /\ rem' \subseteq Reasons
          /\ at' = "business_email_send" /\ st' = new /\ world' = v /\ inp' = NoInput /\ FaultsUp
      BY <1>2, <1>6, <1>8, <1>9, <1>10, <1>11, CalmRuns
    <2>2. MailIInv'
      BY <1>9, <1>10, <2>1, NoInputKnown, MailKeeps DEF IInv
    <2>3. Typed'
      BY <1>9, <2>1, PartsTyped, NoInputKnown DEF IInv, Known
    <2>4. StepsIInv'
      BY <1>6, <1>9, <1>10, <2>1, TrackedSteps
    <2>. QED BY <2>1, <2>2, <2>3, <2>4 DEF IInv
  <1>12. CASE Raises(NoInput, v, rem, said, f)
    BY <1>2, <1>6, <1>9, <1>10, <1>12, BrokenTracks, NoInputKnown DEF Reports
  <1>. QED BY <1>1, <1>3, <1>5, <1>7, <1>11, <1>12, <1>13 DEF Node

\* business_email_await
LEMMA BusinessEmailAwaitKeeps == ASSUME IInv, BusinessEmailAwait PROVE IInv'
  <1>1. PICK p \in EmailReplies \cup Synthetic :
            /\ Resumed("business_email_await", p, EmailReplies)
            /\ \/ p \in Synthetic /\ Reparks(st)
               \/ p = "ask" /\ Answers(p, st)
               \/ /\ p = "address"
                  /\ UNCHANGED claims
                  /\ \/ \E f \in ProgressFaults(2) :
                            Then(p, "consent_send", st, Progressed(world, 2, f), rem, said, f, {})
                     \/ Then(p, "business_email_conflict_send", st, world, rem, said, 0, {})
                     \/ Then(p, "business_email_await", st, world, rem, said, 1, {})
    BY DEF BusinessEmailAwait
  <1>2. EmailReplies \subseteq Payloads /\ EmailReplies \cap Ticks = {}
    BY DEF Payloads, Ticks, EmailReplies
  <1>3. at = "business_email_await" /\ mail' \subseteq mail /\ Known(p)
    BY <1>1, <1>2, ResumedWith DEF IInv
  <1>4. CalmState(st) /\ CalmFields(st) /\ Grows(world) /\ rem \subseteq Reasons /\ claims \subseteq Keys
    BY CalmStateSame, GrowsSame, TypedKeys DEF IInv, CalmState
  <1>5. CASE p \in Synthetic /\ Reparks(st)
    BY <1>3, <1>4, <1>5, ReparksKeeps, IntakeMoves
  <1>6. CASE p = "ask" /\ Answers(p, st)
    BY <1>3, <1>4, <1>6, AnswersKeeps, IntakeMoves DEF Ticks
  <1>7. ASSUME NEW f \in ProgressFaults(2), UNCHANGED claims,
               Then(p, "consent_send", st, Progressed(world, 2, f), rem, said, f, {})
        PROVE  IInv'
    <2>1. f \in {0, 1} /\ claims' \subseteq Keys
      BY <1>4, <1>7 DEF ProgressFaults
    <2>2. Rank("business_email_await") = 2 /\ Rank("consent_send") = 2
      BY DEF Rank, Entry, Contacting, Consenting
    <2>3. UNCHANGED files
      BY <1>7 DEF Then
    <2>4. \/ RunsTo("consent_send", st, Progressed(world, 2, f), rem, said, f)
          \/ Raises(p, Progressed(world, 2, f), rem, said, f)
      BY <1>7 DEF Then
    <2>. QED BY <1>3, <1>4, <2>1, <2>2, <2>3, <2>4, TracksKeeps, IntakeMoves
  <1>8. CASE UNCHANGED claims /\ Then(p, "business_email_conflict_send", st, world, rem, said, 0, {})
    BY <1>3, <1>4, <1>8, ThenKeeps, IntakeMoves
  <1>9. CASE UNCHANGED claims /\ Then(p, "business_email_await", st, world, rem, said, 1, {})
    BY <1>3, <1>4, <1>9, ThenKeeps, IntakeMoves
  <1>. QED BY <1>1, <1>5, <1>6, <1>7, <1>8, <1>9

-----------------------------------------------------------------------------
(* The nodes that take files over from the SME *)

\* The parts of a step that moves files and fields but says nothing
LEMMA CarriesKeeps ==
    ASSUME IInv, NEW next, NEW new, NEW w, NEW r, NEW f \in Nat,
           RunsTo(next, new, w, r, said, f), StTyped(new), Grows(w), r \subseteq Reasons,
           mail' \subseteq mail, claims' \subseteq Keys,
           new.missing = st.missing, new.paid = st.paid, new.uploaded = st.uploaded,
           new.complete_sent = st.complete_sent, new.confirmed_sent = st.confirmed_sent,
           new.offer_confirmed_sent = st.offer_confirmed_sent, new.prompt_sig = st.prompt_sig,
           new.preview = st.preview, new.reg_offers = st.reg_offers, new.offers = st.offers,
           Rank(at) <= 5, Rank(at) <= Rank(next), Rank(next) <= 6,
           next \notin {"documents_complete", "offer_view_send"}
    PROVE  /\ Typed' /\ PaidIInv' /\ SaidIInv' /\ ShownIInv' /\ MailIInv'
           /\ at' = next /\ st' = new /\ world' = w
  <1>1. Rank(at) \in 0 .. 7 /\ Rank(next) \in 0 .. 7
    BY RankNat
  <1>2. /\ Typed' /\ MailIInv'
        /\ at' = next /\ st' = new /\ world' = w /\ said' = said
        /\ faults' = faults + f /\ FaultsUp /\ faults \in Nat /\ faults' \in Nat
    BY RunsParts DEF IInv, Typed, Grows
  <1>3. PaidIInv'
    BY <1>1, <1>2, CalmPaidKeeps DEF CalmPaid, IInv
  <1>4. SaidIInv'
    BY <1>1, <1>2, CalmSaidKeeps DEF CalmSaid, IInv
  <1>5. ShownIInv'
    BY <1>1, <1>2, CalmShownKeeps DEF CalmShown, IInv, Grows, WorldTyped
  <1>. QED BY <1>2, <1>3, <1>4, <1>5

\* consent_await
LEMMA ConsentAwaitKeeps == ASSUME IInv, ConsentAwait PROVE IInv'
  <1>1. PICK p \in {"file", "files", "ask"} \cup Synthetic :
            /\ Resumed("consent_await", p, {"file", "files", "ask"})
            /\ \/ p \in Synthetic /\ Reparks(st)
               \/ p = "ask" /\ Answers(p, st)
               \/ LET extra == Stashed(p, "with_cr")
                  IN  /\ p \in {"file", "files"}
                      /\ Then(p, "cr_upload_base64", [st EXCEPT !.cr_ref = TRUE, !.extras = @ \cup extra],
                              world, rem, said, 0, {"cr"} \cup extra)
                      /\ UNCHANGED claims
    BY DEF ConsentAwait
  <1>2. {"file", "files", "ask"} \subseteq Payloads /\ {"file", "files", "ask"} \cap Ticks = {}
    BY DEF Payloads, Ticks
  <1>3. at = "consent_await" /\ mail' \subseteq mail /\ Known(p)
    BY <1>1, <1>2, ResumedWith DEF IInv
  <1>4. CalmState(st) /\ Grows(world) /\ rem \subseteq Reasons /\ claims \subseteq Keys /\ SaysMore(said)
    BY CalmStateSame, GrowsSame, TypedKeys, SaysMoreSame DEF IInv
  <1>5. CASE p \in Synthetic /\ Reparks(st)
    BY <1>3, <1>4, <1>5, ReparksKeeps, IntakeMoves
  <1>6. CASE p = "ask" /\ Answers(p, st)
    BY <1>3, <1>4, <1>6, AnswersKeeps, IntakeMoves DEF Ticks
  <1>7. PICK extra : extra = Stashed(p, "with_cr")
    OBVIOUS
  <1>8. extra \subseteq Extras
    BY <1>7 DEF Stashed, Extras
  <1>9. PICK new : new = [st EXCEPT !.cr_ref = TRUE, !.extras = @ \cup extra]
    OBVIOUS
  <1>10. CASE Then(p, "cr_upload_base64", new, world, rem, said, 0, {"cr"} \cup extra) /\ UNCHANGED claims
    <2>1. claims' \subseteq Keys
      BY <1>4, <1>10
    <2>2. CASE Raises(p, world, rem, said, 0) /\ UNCHANGED files
      BY <1>3, <1>4, <2>1, <2>2, BrokenKeeps
    <2>3. CASE RunsTo("cr_upload_base64", new, world, rem, said, 0) /\ files' = files \cup ({"cr"} \cup extra)
      <3>1. StTyped(new) /\ new.extras = st.extras \cup extra
        BY <1>8, <1>9 DEF IInv, Typed, StTyped, NewState
      <3>2. /\ new.missing = st.missing /\ new.paid = st.paid /\ new.uploaded = st.uploaded
            /\ new.complete_sent = st.complete_sent /\ new.confirmed_sent = st.confirmed_sent
            /\ new.offer_confirmed_sent = st.offer_confirmed_sent /\ new.prompt_sig = st.prompt_sig
            /\ new.preview = st.preview /\ new.reg_offers = st.reg_offers /\ new.offers = st.offers
        BY <1>9 DEF IInv, Typed, StTyped, NewState
      <3>3. Rank("consent_await") = 2 /\ Rank("cr_upload_base64") = 2
        BY DEF Rank, Entry, Contacting, Consenting
      <3>4. /\ Typed' /\ PaidIInv' /\ SaidIInv' /\ ShownIInv' /\ MailIInv'
            /\ at' = "cr_upload_base64" /\ st' = new /\ world' = world
        BY <1>3, <1>4, <2>1, <2>3, <3>1, <3>2, <3>3, CarriesKeeps
      <3>5. StepsIInv'
        BY <1>3, <3>3, <3>4, TrackedSteps
      <3>6. FilesKept'
        BY <1>3, <2>3, <3>1, <3>4 DEF FilesKept, IInv, FilesIInv
      <3>7. FilesIInv'
        BY <3>2, <3>4, <3>6 DEF FilesIInv, IInv, Looping, Backed
      <3>. QED BY <3>4, <3>5, <3>7 DEF IInv
    <2>. QED BY <1>10, <2>2, <2>3 DEF Then
  <1>. QED BY <1>1, <1>5, <1>6, <1>7, <1>9, <1>10

\* A file in the hands of the upload node stays there when the node raises.
LEMMA UploadFailsKeeps ==
    ASSUME IInv, CrUploadFails \/ FinancialsUploadFails
    PROVE  IInv'
  <1>1. Raises(NoInput, world, rem, said, 0) /\ UNCHANGED <<mail, claims, files>>
    BY DEF CrUploadFails, FinancialsUploadFails
  <1>. QED BY <1>1, BrokenKeeps, NoInputKnown, GrowsSame, TypedKeys, SaysMoreSame DEF IInv

\* The SME is asked for the CR again and knows that the file was not taken.
LEMMA CrReuploadKeeps == ASSUME IInv, CrReupload PROVE IInv'
  <1>1. /\ at = "cr_upload_base64" /\ st.cr_reject_count < CR_MAX_REUPLOAD_NUDGES
        /\ RunsTo("consent_await", [st EXCEPT !.cr_reject_count = @ + 1, !.token = TRUE], world, rem, said, 0)
        /\ files' = files \ {"cr"} /\ mail' \subseteq mail /\ claims' = claims
    BY DEF CrReupload, At
  <1>2. PICK k : k = st.cr_reject_count + 1
    OBVIOUS
  <1>3. k \in 0 .. 2
    BY <1>1, <1>2 DEF IInv, Typed, StTyped, CR_MAX_REUPLOAD_NUDGES
  <1>4. PICK new : new = [st EXCEPT !.cr_reject_count = k, !.token = TRUE]
    OBVIOUS
  <1>5. StTyped(new) /\ new.extras = st.extras
    BY <1>3, <1>4 DEF IInv, Typed, StTyped, NewState
  <1>6. /\ new.missing = st.missing /\ new.paid = st.paid /\ new.uploaded = st.uploaded
        /\ new.complete_sent = st.complete_sent /\ new.confirmed_sent = st.confirmed_sent
        /\ new.offer_confirmed_sent = st.offer_confirmed_sent /\ new.prompt_sig = st.prompt_sig
        /\ new.preview = st.preview /\ new.reg_offers = st.reg_offers /\ new.offers = st.offers
    BY <1>4 DEF IInv, Typed, StTyped, NewState
  <1>7. RunsTo("consent_await", new, world, rem, said, 0)
    BY <1>1, <1>2, <1>4
  <1>8. Rank("consent_await") = 2 /\ Rank("cr_upload_base64") = 2
    BY DEF Rank, Entry, Contacting, Consenting
  <1>9. Grows(world) /\ rem \subseteq Reasons /\ claims' \subseteq Keys
    BY <1>1, GrowsSame, TypedKeys DEF IInv
  <1>10. /\ Typed' /\ PaidIInv' /\ SaidIInv' /\ ShownIInv' /\ MailIInv'
         /\ at' = "consent_await" /\ st' = new /\ world' = world
    BY <1>1, <1>5, <1>6, <1>7, <1>8, <1>9, CarriesKeeps
  <1>11. StepsIInv'
    BY <1>1, <1>8, <1>10, TrackedSteps
  <1>12. FilesKept'
    BY <1>1, <1>5, <1>10 DEF FilesKept, IInv, FilesIInv
  <1>13. FilesIInv'
    BY <1>6, <1>10, <1>12 DEF FilesIInv, IInv, Looping, Backed
  <1>. QED BY <1>10, <1>11, <1>13 DEF IInv

\* What was stashed is saved or kept; the file of the node itself is saved.
LEMMA DrainedGrows ==
    ASSUME Typed, NEW w, Grows(w), w.step = world.step, NEW kept \in SUBSET st.extras
    PROVE  LET v == Drained(w, kept)
           IN  Grows(v) /\ v.step = world.step /\ v.saved = w.saved \cup (st.extras \ kept)
  BY DEF Drained, Grows, WorldTyped, NewLead, Typed, StTyped

\* Both upload nodes: the file is saved, the stash drained, the step reported.
LEMMA UploadKeeps ==
    ASSUME IInv, NEW n, NEW next, NEW name, NEW k \in 2 .. 3, NEW kept \in SUBSET st.extras, NEW f \in {0, 1},
           NEW base, NEW w, Grows(w), w.step = world.step, name \in w.saved,
           StTyped(base), base.extras = kept, base.missing = st.missing, base.paid = st.paid,
           base.uploaded = st.uploaded, base.complete_sent = st.complete_sent,
           base.confirmed_sent = st.confirmed_sent, base.offer_confirmed_sent = st.offer_confirmed_sent,
           base.prompt_sig = st.prompt_sig, base.preview = st.preview, base.reg_offers = st.reg_offers,
           base.offers = st.offers,
           Node(n, next, Recorded(base, k, f), Progressed(Drained(w, kept), k, f), rem, said,
                f + DrainFaults(kept)),
           \/ n = "cr_upload_base64" /\ name = "cr" /\ next = "financials_send" /\ k = 2
           \/ n = "financials_upload_base64" /\ name = "fin" /\ next = "prequalify_wait_await" /\ k = 3
    PROVE  IInv'
  <1>. Typed
    BY DEF IInv
  <1>1. PICK d : d = Drained(w, kept)
    OBVIOUS
  <1>2. Grows(d) /\ d.step = world.step /\ d.saved = w.saved \cup (st.extras \ kept)
    BY <1>1, DrainedGrows
  <1>3. PICK v : v = Progressed(d, k, f)
    OBVIOUS
  <1>4. Grows(v) /\ v.step \in {world.step, k} /\ v.saved = d.saved
    BY <1>2, <1>3, ProgressedGrows
  <1>5. PICK new : new = Recorded(base, k, f)
    OBVIOUS
  <1>6. /\ StTyped(new) /\ new.extras = kept
        /\ new.missing = st.missing /\ new.paid = st.paid /\ new.uploaded = st.uploaded
        /\ new.complete_sent = st.complete_sent /\ new.confirmed_sent = st.confirmed_sent
        /\ new.offer_confirmed_sent = st.offer_confirmed_sent /\ new.prompt_sig = st.prompt_sig
        /\ new.preview = st.preview /\ new.reg_offers = st.reg_offers /\ new.offers = st.offers
    BY <1>5, RecordedState
  <1>7. PICK g \in Nat : g = f + DrainFaults(kept)
    BY DEF DrainFaults
  <1>8. Node(n, next, new, v, rem, said, g)
    BY <1>1, <1>3, <1>5, <1>7
  <1>9. /\ at = n /\ mail' \subseteq mail /\ claims' \subseteq Keys
        /\ files' = files /\ rem \subseteq Reasons /\ SaysMore(said)
    BY <1>8, TypedKeys, SaysMoreSame DEF Node, At
  <1>10. Rank(n) = k /\ Rank(next) = k + 1 /\ next \notin Looping
    BY DEF Rank, Entry, Contacting, Consenting, Reporting, Expecting, Looping
  <1>11. CASE RunsTo(next, new, v, rem, said, g)
    <2>1. next \notin {"documents_complete", "offer_view_send"}
      OBVIOUS
    <2>2. /\ Typed' /\ PaidIInv' /\ SaidIInv' /\ ShownIInv' /\ MailIInv'
          /\ at' = next /\ st' = new /\ world' = v
      BY <1>4, <1>6, <1>9, <1>10, <1>11, <2>1, CarriesKeeps
    <2>3. StepsIInv'
      BY <1>4, <1>9, <1>10, <2>2, TrackedSteps
    <2>4. v.saved = w.saved \cup (st.extras \ kept) /\ world.saved \subseteq w.saved /\ v.channel = world.channel
      BY <1>2, <1>4 DEF Grows
    <2>5. FilesKept'
      BY <1>6, <1>9, <2>2, <2>4 DEF FilesKept, IInv, FilesIInv
    <2>6. Backed(world) => Backed(v)
      BY <2>4 DEF Backed
    <2>7. FilesIInv'
      BY <1>6, <1>10, <2>1, <2>2, <2>4, <2>5, <2>6 DEF FilesIInv, IInv
    <2>. QED BY <2>2, <2>3, <2>7 DEF IInv
  <1>12. CASE Raises(NoInput, v, rem, said, g)
    <2>1. Reports(k)
      BY <1>9, <1>10 DEF Reports
    <2>. QED BY <1>4, <1>9, <1>12, <2>1, BrokenTracks, NoInputKnown
  <1>. QED BY <1>8, <1>11, <1>12 DEF Node

\* A saved CR moves a lead on, and nothing else.
LEMMA CrSavedGrows ==
    ASSUME Typed
    PROVE  LET w == CrSaved(world)
           IN  Grows(w) /\ w.step = world.step /\ "cr" \in w.saved
  <1>1. PICK w : w = CrSaved(world)
    OBVIOUS
  <1>2. PICK s : s = IF world.status \in {"SIGN_UP", "ONBOARDED"} THEN "INCOMPLETE" ELSE world.status
    OBVIOUS
  <1>3. s \in JourneyStatuses
    BY <1>2 DEF Typed, WorldTyped, JourneyStatuses, Documenting
  <1>4. w = [world EXCEPT !.saved = @ \cup {"cr"}, !.status = s]
    BY <1>1, <1>2 DEF CrSaved, Typed, WorldTyped, NewLead
  <1>5. Grows(w) /\ w.step = world.step /\ "cr" \in w.saved
    BY <1>3, <1>4, GrowsSame DEF Grows, WorldTyped, NewLead
  <1>. QED BY <1>1, <1>5

\* cr_upload_base64
LEMMA CrUploadKeeps == ASSUME IInv, CrUpload PROVE IInv'
  <1>. Typed
    BY DEF IInv
  <1>1. PICK kept \in SUBSET st.extras, f \in ProgressFaults(2) :
            Node("cr_upload_base64", "financials_send",
                 Recorded([st EXCEPT !.cr_reject_count = 0, !.token = TRUE, !.extras = kept], 2, f),
                 Progressed(Drained(CrSaved(world), kept), 2, f), rem, said, f + DrainFaults(kept))
    BY DEF CrUpload
  <1>2. f \in {0, 1}
    BY DEF ProgressFaults
  <1>3. PICK base : base = [st EXCEPT !.cr_reject_count = 0, !.token = TRUE, !.extras = kept]
    OBVIOUS
  <1>4. StTyped(base) /\ base.extras = kept
    BY <1>3 DEF Typed, StTyped, NewState
  <1>5. /\ base.missing = st.missing /\ base.paid = st.paid
        /\ base.uploaded = st.uploaded /\ base.complete_sent = st.complete_sent
        /\ base.confirmed_sent = st.confirmed_sent /\ base.offer_confirmed_sent = st.offer_confirmed_sent
        /\ base.prompt_sig = st.prompt_sig /\ base.preview = st.preview
        /\ base.reg_offers = st.reg_offers /\ base.offers = st.offers
    BY <1>3 DEF Typed, StTyped, NewState
  <1>6. PICK w : w = CrSaved(world)
    OBVIOUS
  <1>10. Grows(w) /\ w.step = world.step /\ "cr" \in w.saved
    BY <1>6, CrSavedGrows
  <1>11. Node("cr_upload_base64", "financials_send", Recorded(base, 2, f), Progressed(Drained(w, kept), 2, f),
              rem, said, f + DrainFaults(kept))
    BY <1>1, <1>3, <1>6
  <1>. QED BY <1>2, <1>4, <1>5, <1>10, <1>11, UploadKeeps

\* financials_upload_base64
LEMMA FinancialsUploadKeeps == ASSUME IInv, FinancialsUpload PROVE IInv'
  <1>. Typed
    BY DEF IInv
  <1>1. PICK kept \in SUBSET st.extras, f \in ProgressFaults(3) :
            Node("financials_upload_base64", "prequalify_wait_await",
                 Recorded([st EXCEPT !.token = TRUE, !.extras = kept], 3, f),
                 Progressed(Drained([world EXCEPT !.saved = @ \cup {"fin"}], kept), 3, f),
                 rem, said, f + DrainFaults(kept))
    BY DEF FinancialsUpload
  <1>2. f \in {0, 1}
    BY DEF ProgressFaults
  <1>3. PICK base : base = [st EXCEPT !.token = TRUE, !.extras = kept]
    OBVIOUS
  <1>4. StTyped(base) /\ base.extras = kept
    BY <1>3 DEF Typed, StTyped, NewState
  <1>5. /\ base.missing = st.missing /\ base.paid = st.paid
        /\ base.uploaded = st.uploaded /\ base.complete_sent = st.complete_sent
        /\ base.confirmed_sent = st.confirmed_sent /\ base.offer_confirmed_sent = st.offer_confirmed_sent
        /\ base.prompt_sig = st.prompt_sig /\ base.preview = st.preview
        /\ base.reg_offers = st.reg_offers /\ base.offers = st.offers
    BY <1>3 DEF Typed, StTyped, NewState
  <1>6. PICK w : w = [world EXCEPT !.saved = @ \cup {"fin"}]
    OBVIOUS
  <1>7. Grows(w) /\ w.step = world.step /\ "fin" \in w.saved
    BY <1>6, GrowsSame DEF Grows, WorldTyped, NewLead
  <1>8. Node("financials_upload_base64", "prequalify_wait_await", Recorded(base, 3, f),
             Progressed(Drained(w, kept), 3, f), rem, said, f + DrainFaults(kept))
    BY <1>1, <1>3, <1>6
  <1>. QED BY <1>2, <1>4, <1>5, <1>7, <1>8, UploadKeeps

\* financials_send
LEMMA FinancialsSendKeeps == ASSUME IInv, FinancialsSend PROVE IInv'
  <1>1. CalmState(st) /\ rem \cup {"financials_pending"} \subseteq Reasons /\ Grows(world)
    BY CalmStateSame, TypedKeys, GrowsSame DEF IInv, Reasons
  <1>2. CASE Node("financials_send", "financials_await", st, world, rem \cup {"financials_pending"}, said, 0)
    BY <1>1, <1>2, NodeKeeps, IntakeMoves
  <1>3. CASE Pure("financials_send", "financials_await", st, 1)
    BY <1>1, <1>3, PureKeeps, IntakeMoves
  <1>. QED BY <1>2, <1>3 DEF FinancialsSend

\* financials_await
LEMMA FinancialsAwaitKeeps == ASSUME IInv, FinancialsAwait PROVE IInv'
  <1>1. PICK p \in {"file", "files", "again", "ask", "free"} \cup Synthetic :
            /\ Resumed("financials_await", p, {"file", "files", "again", "ask", "free"})
            /\ \/ p \in {"again", "ask"} /\ Answers(p, [st EXCEPT !.financials_received = FALSE])
               \/ /\ p \in {"free"} \cup Synthetic
                  /\ Then(p, "financials_await", [st EXCEPT !.financials_received = FALSE], world, {},
                          IF p \in Ticks THEN Says("unasked") ELSE said, 0, {})
                  /\ UNCHANGED claims
               \/ LET extra == Stashed(p, "with_financials")
                  IN  /\ p \in {"file", "files"}
                      /\ Then(p, "financials_upload_base64",
                              [st EXCEPT !.financials_received = TRUE, !.extras = @ \cup extra],
                              world, {}, said, 0, {"fin"} \cup extra)
                      /\ UNCHANGED claims
    BY DEF FinancialsAwait
  <1>2. /\ {"file", "files", "again", "ask", "free"} \subseteq Payloads
        /\ {"file", "files", "again", "ask", "free"} \cap Ticks = {}
    BY DEF Payloads, Ticks
  <1>3. Rank("financials_await") = 3 /\ Rank("financials_upload_base64") = 3
    BY DEF Rank, Entry, Contacting, Consenting, Reporting
  <1>4. at = "financials_await" /\ mail' \subseteq mail /\ Known(p) /\ p \notin Ticks
    BY <1>1, <1>2, <1>3, ResumedWith DEF IInv
  <1>5. Grows(world) /\ {} \subseteq Reasons /\ claims \subseteq Keys /\ SaysMore(said)
    BY GrowsSame, TypedKeys, SaysMoreSame DEF IInv
  <1>6. PICK calm : calm = [st EXCEPT !.financials_received = FALSE]
    OBVIOUS
  <1>7. CalmState(calm)
    BY <1>6, SteeringFields DEF IInv
  <1>8. CASE p \in {"again", "ask"} /\ Answers(p, calm)
    BY <1>4, <1>7, <1>8, AnswersKeeps, IntakeMoves
  <1>9. CASE Then(p, "financials_await", calm, world, {}, said, 0, {}) /\ UNCHANGED claims
    BY <1>4, <1>5, <1>7, <1>9, ThenKeeps, IntakeMoves
  <1>10. PICK extra : extra = Stashed(p, "with_financials")
    OBVIOUS
  <1>11. extra \subseteq Extras
    BY <1>10 DEF Stashed, Extras
  <1>12. PICK new : new = [st EXCEPT !.financials_received = TRUE, !.extras = @ \cup extra]
    OBVIOUS
  <1>13. CASE Then(p, "financials_upload_base64", new, world, {}, said, 0, {"fin"} \cup extra) /\ UNCHANGED claims
    <2>1. claims' \subseteq Keys
      BY <1>5, <1>13
    <2>2. CASE Raises(p, world, {}, said, 0) /\ UNCHANGED files
      BY <1>4, <1>5, <2>1, <2>2, BrokenKeeps
    <2>3. CASE RunsTo("financials_upload_base64", new, world, {}, said, 0)
               /\ files' = files \cup ({"fin"} \cup extra)
      <3>1. StTyped(new) /\ new.extras = st.extras \cup extra
        BY <1>11, <1>12 DEF IInv, Typed, StTyped, NewState
      <3>2. /\ new.missing = st.missing /\ new.paid = st.paid /\ new.uploaded = st.uploaded
            /\ new.complete_sent = st.complete_sent /\ new.confirmed_sent = st.confirmed_sent
            /\ new.offer_confirmed_sent = st.offer_confirmed_sent /\ new.prompt_sig = st.prompt_sig
            /\ new.preview = st.preview /\ new.reg_offers = st.reg_offers /\ new.offers = st.offers
        BY <1>12 DEF IInv, Typed, StTyped, NewState
      <3>3. /\ Typed' /\ PaidIInv' /\ SaidIInv' /\ ShownIInv' /\ MailIInv'
            /\ at' = "financials_upload_base64" /\ st' = new /\ world' = world
        BY <1>3, <1>4, <1>5, <2>1, <2>3, <3>1, <3>2, CarriesKeeps
      <3>4. StepsIInv'
        BY <1>3, <1>4, <3>3, TrackedSteps
      <3>5. FilesKept'
        BY <1>4, <2>3, <3>1, <3>3 DEF FilesKept, IInv, FilesIInv
      <3>6. FilesIInv'
        BY <3>2, <3>3, <3>5 DEF FilesIInv, IInv, Looping, Backed
      <3>. QED BY <3>3, <3>4, <3>6 DEF IInv
    <2>. QED BY <1>13, <2>2, <2>3 DEF Then
  <1>. QED BY <1>1, <1>4, <1>6, <1>8, <1>9, <1>10, <1>12, <1>13

\* A document sent while the run waits is saved or the node raises.
LEMMA CapturesAdditionalKeeps ==
    ASSUME IInv, NEW p, Known(p), CapturesAdditional(p), mail' \subseteq mail,
           at \in {"prequalify_wait_await", "payment_wait_await"}
    PROVE  IInv'
  <1>. Typed
    BY DEF IInv
  <1>1. PICK kept \in SUBSET st.extras :
            Then(p, at, [st EXCEPT !.extras = kept],
                 Drained([world EXCEPT !.saved = @ \cup {"additional"}], kept), {}, said,
                 DrainFaults(kept), {"additional"})
    BY DEF CapturesAdditional
  <1>2. claims' \subseteq Keys /\ {} \subseteq Reasons /\ SaysMore(said)
    BY TypedKeys, SaysMoreSame DEF CapturesAdditional
  <1>3. PICK w : w = [world EXCEPT !.saved = @ \cup {"additional"}]
    OBVIOUS
  <1>4. Grows(w) /\ w.step = world.step /\ w.saved = world.saved \cup {"additional"}
    BY <1>3, GrowsSame DEF Grows, WorldTyped, NewLead, Extras
  <1>5. PICK v : v = Drained(w, kept)
    OBVIOUS
  <1>6. Grows(v) /\ v.step = world.step /\ v.saved = w.saved \cup (st.extras \ kept)
    BY <1>4, <1>5, DrainedGrows
  <1>7. PICK new : new = [st EXCEPT !.extras = kept]
    OBVIOUS
  <1>8. StTyped(new) /\ new.extras = kept
    BY <1>7 DEF Typed, StTyped, NewState
  <1>9. /\ new.missing = st.missing /\ new.paid = st.paid /\ new.uploaded = st.uploaded
        /\ new.complete_sent = st.complete_sent /\ new.confirmed_sent = st.confirmed_sent
        /\ new.offer_confirmed_sent = st.offer_confirmed_sent /\ new.prompt_sig = st.prompt_sig
        /\ new.preview = st.preview /\ new.reg_offers = st.reg_offers /\ new.offers = st.offers
    BY <1>7 DEF Typed, StTyped, NewState
  <1>10. PICK g \in Nat : g = DrainFaults(kept)
    BY DEF DrainFaults
  <1>11. Then(p, at, new, v, {}, said, g, {"additional"})
    BY <1>1, <1>3, <1>5, <1>7, <1>10
  <1>12. CASE Raises(p, v, {}, said, g) /\ UNCHANGED files
    BY <1>2, <1>6, <1>12, BrokenKeeps
  <1>13. CASE RunsTo(at, new, v, {}, said, g) /\ files' = files \cup {"additional"}
    <2>1. Rank(at) \in 4 .. 5 /\ at \notin {"documents_complete", "offer_view_send"} \cup Looping \cup Uploading
      BY DEF Rank, Entry, Contacting, Consenting, Reporting, Expecting, Looping, Uploading
    <2>2. /\ Typed' /\ PaidIInv' /\ SaidIInv' /\ ShownIInv' /\ MailIInv'
          /\ at' = at /\ st' = new /\ world' = v
      BY <1>2, <1>6, <1>8, <1>9, <1>13, <2>1, CarriesKeeps
    <2>3. StepsIInv'
      BY <1>6, <2>1, <2>2, TrackedSteps
    <2>4. FilesKept'
      BY <1>4, <1>6, <1>8, <1>13, <2>1, <2>2 DEF FilesKept, IInv, FilesIInv, Uploading
    <2>5. Backed(world) => Backed(v)
      BY <1>4, <1>6 DEF Backed
    <2>6. FilesIInv'
      BY <1>6, <1>9, <2>1, <2>2, <2>4, <2>5 DEF FilesIInv, IInv, Grows
    <2>. QED BY <2>2, <2>3, <2>6 DEF IInv
  <1>. QED BY <1>11, <1>12, <1>13 DEF Then

\* prequalify_wait_await
LEMMA PrequalifyWaitAwaitKeeps == ASSUME IInv, PrequalifyWaitAwait PROVE IInv'
  <1>1. PICK p \in {"file", "ask"} \cup Synthetic :
            /\ Resumed("prequalify_wait_await", p, {"file", "ask"})
            /\ \/ /\ p = "rejected"
                  /\ Then(p, "not_pre_qualified", st, world, {}, said, 0, {})
                  /\ UNCHANGED claims
               \/ /\ p \in StatusEvents
                  /\ \E f \in ProgressFaults(4) :
                         Then(p, "documents_list_fetch", Recorded(st, 4, f), Progressed(world, 4, f), rem, said, f, {})
                  /\ UNCHANGED claims
               \/ p \in Ticks /\ Reparks(st)
               \/ p = "file" /\ CapturesAdditional(p)
               \/ p \in {"ask"} \cup FeeEvents /\ Answers(p, st)
    BY DEF PrequalifyWaitAwait
  <1>2. {"file", "ask"} \subseteq Payloads /\ {"file", "ask"} \cap Ticks = {}
    BY DEF Payloads, Ticks
  <1>3. at = "prequalify_wait_await" /\ mail' \subseteq mail /\ Known(p)
    BY <1>1, <1>2, ResumedWith DEF IInv
  <1>4. /\ CalmState(st) /\ CalmFields(st) /\ Grows(world) /\ rem \subseteq Reasons /\ {} \subseteq Reasons
        /\ claims \subseteq Keys
    BY CalmStateSame, GrowsSame, TypedKeys DEF IInv, CalmState
  <1>5. CASE Then(p, "not_pre_qualified", st, world, {}, said, 0, {}) /\ UNCHANGED claims
    BY <1>3, <1>4, <1>5, ThenKeeps, IntakeMoves
  <1>6. ASSUME NEW f \in ProgressFaults(4), UNCHANGED claims,
               Then(p, "documents_list_fetch", Recorded(st, 4, f), Progressed(world, 4, f), rem, said, f, {})
        PROVE  IInv'
    <2>1. f \in {0, 1} /\ claims' \subseteq Keys
      BY <1>4, <1>6 DEF ProgressFaults
    <2>2. /\ Rank("prequalify_wait_await") = 4 /\ Rank("documents_list_fetch") = 4
          /\ CalmMove("prequalify_wait_await", "documents_list_fetch")
      BY DEF CalmMove, Rank, Entry, Contacting, Consenting, Reporting, Expecting, Looping, Uploading
    <2>3. PICK new : new = Recorded(st, 4, f)
      OBVIOUS
    <2>4. CalmFields(new)
      BY <1>4, <2>3, RecordedCalm DEF IInv
    <2>5. UNCHANGED files
      BY <1>6 DEF Then
    <2>6. \/ RunsTo("documents_list_fetch", new, Progressed(world, 4, f), rem, said, f)
          \/ Raises(p, Progressed(world, 4, f), rem, said, f)
      BY <1>6, <2>3 DEF Then
    <2>. QED BY <1>3, <1>4, <2>1, <2>2, <2>4, <2>5, <2>6, TracksKeeps
  <1>7. CASE Reparks(st)
    BY <1>3, <1>4, <1>7, ReparksKeeps, IntakeMoves
  <1>8. CASE CapturesAdditional(p)
    BY <1>3, <1>8, CapturesAdditionalKeeps
  <1>9. CASE p \in {"ask"} \cup FeeEvents /\ Answers(p, st)
    BY <1>3, <1>4, <1>9, AnswersKeeps, IntakeMoves DEF Ticks, FeeEvents
  <1>. QED BY <1>1, <1>5, <1>6, <1>7, <1>8, <1>9

\* A status event carries a status of the journey.
LEMMA StatusInType == \A p \in StatusEvents : StatusIn(p) \in JourneyStatuses
  BY DEF StatusEvents, StatusIn, EventStatus, JourneyStatuses, QualifiedPlus, Settled, Documenting

\* A status is learned by webhook or by polling.
LEMMA SourceOfType == \A p : SourceOf(p) \in {"webhook", "poll"}
  BY DEF SourceOf

\* The checklist is fetched before anything was uploaded.
LEMMA DocumentsListFetchKeeps == ASSUME IInv, DocumentsListFetch PROVE IInv'
  <1>. Typed
    BY DEF IInv
  <1>1. PICK m : m = IF world.channel = "whatsapp" THEN Docs
                     ELSE IF st.token THEN Docs \ world.saved
                     ELSE {}
    OBVIOUS
  <1>2. m \subseteq Docs /\ (world.channel = "whatsapp" => m = Docs)
    BY <1>1
  <1>3. PICK new : new = [st EXCEPT !.missing = m]
    OBVIOUS
  <1>4. StTyped(new) /\ new.missing = m
    BY <1>2, <1>3 DEF Typed, StTyped, NewState
  <1>5. /\ new.extras = st.extras /\ new.paid = st.paid /\ new.uploaded = st.uploaded
        /\ new.complete_sent = st.complete_sent /\ new.confirmed_sent = st.confirmed_sent
        /\ new.offer_confirmed_sent = st.offer_confirmed_sent /\ new.prompt_sig = st.prompt_sig
        /\ new.preview = st.preview /\ new.reg_offers = st.reg_offers /\ new.offers = st.offers
        /\ new.step = st.step
    BY <1>3 DEF Typed, StTyped, NewState
  <1>6. Node("documents_list_fetch", "documents_upload_loop_send", new, world, rem, said, 0)
    BY <1>1, <1>3 DEF DocumentsListFetch, Pure
  <1>7. /\ at = "documents_list_fetch" /\ mail' \subseteq mail /\ claims' \subseteq Keys
        /\ files' = files /\ rem \subseteq Reasons /\ SaysMore(said) /\ Grows(world)
    BY <1>6, TypedKeys, SaysMoreSame, GrowsSame DEF Node, At
  <1>8. Rank("documents_list_fetch") = 4 /\ Rank("documents_upload_loop_send") = 5
    BY DEF Rank, Entry, Contacting, Consenting, Reporting, Expecting, Looping
  <1>9. CASE RunsTo("documents_upload_loop_send", new, world, rem, said, 0)
    <2>1. /\ Typed' /\ MailIInv'
          /\ at' = "documents_upload_loop_send" /\ st' = new /\ world' = world /\ said' = said
          /\ faults' = faults + 0 /\ FaultsUp /\ faults \in Nat /\ faults' \in Nat
      BY <1>4, <1>7, <1>8, <1>9, RunsParts DEF Typed
    <2>2. PaidIInv'
      BY <1>5, <1>7, <1>8, <2>1 DEF PaidIInv, IInv
    <2>3. ShownIInv'
      <3>1. world.offers \in 0 .. MaxOffers /\ world.offers <= world.offers
        BY BoundsNat DEF Typed, WorldTyped
      <3>2. CalmShown
        BY <1>5, <1>8, <2>1, <3>1 DEF CalmShown
      <3>. QED BY <3>2, CalmShownKeeps DEF IInv
    <2>4. StepsIInv'
      BY <1>7, <1>8, <2>1, TrackedSteps
    <2>5. FilesKept'
      BY <1>5, <1>7, <2>1 DEF FilesKept, IInv, FilesIInv
    <2>6. FilesIInv'
      BY <1>2, <1>4, <1>5, <2>1, <2>5 DEF FilesIInv, IInv
    <2>7. SaidIInv'
      <3>1. st.prompt_sig = {}
        BY <1>7, <1>8 DEF IInv, SaidIInv
      <3>. QED BY <1>5, <1>8, <2>1, <3>1 DEF SaidIInv, IInv
    <2>. QED BY <2>1, <2>2, <2>3, <2>4, <2>6, <2>7 DEF IInv
  <1>10. CASE Raises(NoInput, world, rem, said, 0)
    BY <1>7, <1>10, BrokenKeeps, NoInputKnown
  <1>. QED BY <1>6, <1>9, <1>10 DEF Node

\* documents_upload_loop_send: the prompt is sent at most once for each set of missing documents.
LEMMA DocumentsUploadLoopSendKeeps == ASSUME IInv, DocumentsUploadLoopSend PROVE IInv'
  <1>1. PICK first \in BOOLEAN, f \in {0, 1} :
            /\ At("documents_upload_loop_send")
            /\ Claim("checklist", first, f)
            /\ IF first THEN Then(NoInput, "documents_upload_loop_await", st, world, rem \cup {"incomplete_docs"},
                                  said, f, {})
                        ELSE RunsTo("documents_upload_loop_await", st, world, rem, said, f) /\ UNCHANGED files
            /\ UNCHANGED mail
    BY DEF DocumentsUploadLoopSend
  <1>2. /\ CalmState(st) /\ Grows(world) /\ rem \subseteq Reasons /\ rem \cup {"incomplete_docs"} \subseteq Reasons
        /\ claims \subseteq Keys
    BY CalmStateSame, GrowsSame, TypedKeys DEF IInv, Reasons
  <1>3. claims' \subseteq Keys /\ mail' \subseteq mail /\ at = "documents_upload_loop_send"
    BY <1>1, <1>2 DEF Claim, Keys, At
  <1>4. CalmMove("documents_upload_loop_send", "documents_upload_loop_await")
    BY DEF CalmMove, Rank, Entry, Contacting, Consenting, Reporting, Expecting, Looping, Uploading
  <1>5. CASE Then(NoInput, "documents_upload_loop_await", st, world, rem \cup {"incomplete_docs"}, said, f, {})
    BY <1>2, <1>3, <1>4, <1>5, ThenKeeps, NoInputKnown
  <1>6. CASE RunsTo("documents_upload_loop_await", st, world, rem, said, f) /\ UNCHANGED files
    BY <1>2, <1>3, <1>4, <1>6, CalmRunsKeeps
  <1>. QED BY <1>1, <1>5, <1>6

-----------------------------------------------------------------------------
(* The documents loop *)

\* Where the documents loop leads, and what it found on the way
LEMMA DocumentRoutes ==
    ASSUME NEW s
    PROVE  LET next == RouteDocuments(s)
           IN  /\ next \in {"lender_status_poll", "business_details_fetch", "payment_wait_await",
                            "documents_complete", "documents_upload_loop_await"}
               /\ next # "lender_status_poll" => ~s.paid
               /\ next = "documents_complete" => s.missing = {} /\ ~s.complete_sent
  <1>1. CASE s.paid \/ s.status \in Settled
    BY <1>1 DEF RouteDocuments
  <1>2. CASE ~(s.paid \/ s.status \in Settled) /\ (s.ready \/ s.status = "QUALIFIED")
    BY <1>2 DEF RouteDocuments
  <1>3. CASE ~(s.paid \/ s.status \in Settled) /\ ~(s.ready \/ s.status = "QUALIFIED") /\ s.proceed
    BY <1>3 DEF RouteDocuments
  <1>4. CASE ~(s.paid \/ s.status \in Settled) /\ ~(s.ready \/ s.status = "QUALIFIED") /\ ~s.proceed
    BY <1>4 DEF RouteDocuments
  <1>. QED BY <1>1, <1>2, <1>3, <1>4

\* The ranks of the documents loop and of what follows it
LEMMA LoopRanks ==
    /\ Rank("documents_upload_loop_await") = 5 /\ Rank("documents_complete") = 5
    /\ Rank("payment_wait_await") = 5 /\ Rank("business_details_fetch") = 6
    /\ Rank("lender_status_poll") = 7
  BY DEF Rank, Entry, Contacting, Consenting, Reporting, Expecting, Looping, Billing

\* What the loop may say next, given what it said and what it asked for
SaidSoFar(new, s) ==
    /\ s.complete <= faults + Once(new.complete_sent)
    /\ new.prompt_sig = {} => s.prompt <= faults
    /\ new.prompt_sig # {} =>
           /\ new.missing \subseteq new.prompt_sig
           /\ s.prompt + Cardinality(new.prompt_sig) <= faults + Cardinality(Docs) + 1
    /\ s.confirmed = said.confirmed /\ s.offer_confirmed = said.offer_confirmed
    /\ s.activated = said.activated
    /\ s.preview = said.preview

\* The fields the loop leaves alone
LoopFields(new) ==
    /\ StTyped(new)
    /\ new.extras = st.extras
    /\ new.confirmed_sent = st.confirmed_sent /\ new.offer_confirmed_sent = st.offer_confirmed_sent
    /\ new.preview = st.preview /\ new.reg_offers = st.reg_offers /\ new.offers = st.offers

\* The documents loop keeps the counts of messages when it keeps the fields they depend on.
LEMMA SaidSoFarSame ==
    ASSUME IInv, NEW new, new.complete_sent = st.complete_sent, new.prompt_sig = st.prompt_sig,
           new.missing \subseteq st.missing
    PROVE  SaidSoFar(new, said)
  BY DEF SaidSoFar, IInv, SaidIInv

\* A turn of the documents loop (Loops), from the fields it assigns.
LEMMA LoopsKeeps ==
    ASSUME IInv, NEW p, Known(p), at = "documents_upload_loop_await",
           NEW new, NEW v, NEW r, NEW s, NEW f \in Nat, NEW got \in SUBSET Docs,
           Loops(p, new, v, r, s, f, got), mail' \subseteq mail, claims' \subseteq Keys, r \subseteq Reasons,
           Grows(v), v.step \in {world.step, 5}, SaysMore(s), LoopFields(new), SaidSoFar(new, s),
           new.missing = st.missing \/ Backed(v), new.uploaded => st.uploaded \/ Backed(v)
    PROVE  IInv'
  <1>. Typed
    BY DEF IInv
  <1>1. PICK next : next = RouteDocuments(new)
    OBVIOUS
  <1>2. /\ next \in {"lender_status_poll", "business_details_fetch", "payment_wait_await",
                     "documents_complete", "documents_upload_loop_await"}
        /\ next # "lender_status_poll" => ~new.paid
        /\ next = "documents_complete" => new.missing = {} /\ ~new.complete_sent
    BY <1>1, DocumentRoutes
  <1>3. Rank(at) = 5 /\ Rank(next) \in 5 .. 7 /\ (Rank(next) <= 6 => next # "lender_status_poll")
    BY <1>2, LoopRanks
  <1>4. CASE RunsTo(next, new, v, r, s, f) /\ files' = files \cup got
    <2>1. /\ Typed' /\ MailIInv'
          /\ at' = next /\ st' = new /\ world' = v /\ said' = s
          /\ faults' = faults + f /\ FaultsUp /\ faults \in Nat /\ faults' \in Nat
      BY <1>3, <1>4, RunsParts DEF LoopFields, Grows, SaysMore
    <2>2. PaidIInv'
      BY <1>2, <1>3, <2>1 DEF PaidIInv
    <2>3. ShownIInv'
      BY <1>2, <1>3, <2>1, CalmShownKeeps
         DEF CalmShown, IInv, Grows, WorldTyped, LoopFields, SaidSoFar
    <2>4. StepsIInv'
      BY <1>3, <2>1, TrackedSteps
    <2>5. FilesKept'
      BY <1>4, <2>1 DEF FilesKept, IInv, FilesIInv, LoopFields, Grows
    <2>6. Backed(world) => Backed(v)
      BY DEF Backed, Grows
    <2>7. FilesIInv'
      BY <1>2, <2>1, <2>5, <2>6 DEF FilesIInv, IInv, Looping, Grows
    <2>8. SaidIInv'
      <3>1. /\ said.confirmed \in Nat /\ said.offer_confirmed \in Nat /\ said.activated \in Nat
            /\ s.complete \in Nat /\ s.prompt \in Nat
        BY DEF Typed, SaidTyped, SaysMore
      <3>2. Cardinality(Docs) \in Nat /\ Cardinality(new.prompt_sig) \in Nat
        BY DocsAssumption, FS_CardinalityType, FS_Subset DEF LoopFields, StTyped
      <3>3. Once(new.complete_sent) \in Nat /\ Once(st.confirmed_sent) \in Nat
            /\ Once(st.offer_confirmed_sent) \in Nat
        BY DEF Once
      <3>4. faults <= faults'
        BY <2>1
      <3>5. (said.complete <= faults + Once(st.complete_sent))'
        BY <2>1, <3>1, <3>3, <3>4 DEF SaidSoFar
      <3>6. /\ (said.confirmed <= faults + Once(st.confirmed_sent))'
            /\ (said.offer_confirmed <= faults + Once(st.offer_confirmed_sent))'
        BY <2>1, <3>1, <3>3, <3>4 DEF SaidSoFar, LoopFields, IInv, SaidIInv
      <3>7. /\ (st.prompt_sig = {} => said.prompt <= faults)'
            /\ (st.prompt_sig # {} => st.missing \subseteq st.prompt_sig)'
            /\ (st.prompt_sig # {} => said.prompt + Cardinality(st.prompt_sig) <= faults + Cardinality(Docs) + 1)'
        BY <2>1, <3>1, <3>2, <3>4 DEF SaidSoFar
      <3>8. /\ (said.activated > 0 => said.offer_confirmed > 0 \/ faults > 0)'
            /\ (st.offer_confirmed_sent /\ MaxSaid > 0 => said.offer_confirmed > 0)'
            /\ (said.unasked = 0)'
        BY <2>1, <3>1, <3>4 DEF SaidSoFar, LoopFields, SaysMore, IInv, SaidIInv
      <3>. QED BY <1>2, <1>3, <2>1, <3>5, <3>6, <3>7, <3>8 DEF SaidIInv
    <2>. QED BY <2>1, <2>2, <2>3, <2>4, <2>7, <2>8 DEF IInv
  <1>5. CASE Raises(p, v, r, s, f) /\ UNCHANGED files
    <2>1. Reports(5)
      BY <1>3 DEF Reports
    <2>. QED BY <1>5, <2>1, BrokenTracks
  <1>. QED BY <1>1, <1>4, <1>5 DEF Loops, Then

\* A node of the loop that settles the fee or takes a status, and reports step 5
LEMMA TrackedLoop ==
    ASSUME IInv, NEW p, Known(p), at = "documents_upload_loop_await", NEW new, NEW r, NEW f \in {0, 1},
           Loops(p, Recorded(new, 5, f), Progressed(world, 5, f), r, said, f, {}), r \subseteq Reasons,
           mail' \subseteq mail, claims' \subseteq Keys, LoopFields(new),
           new.missing = st.missing, new.uploaded = st.uploaded,
           new.complete_sent = st.complete_sent, new.prompt_sig = st.prompt_sig
    PROVE  IInv'
  <1>. Typed
    BY DEF IInv
  <1>1. PICK v : v = Progressed(world, 5, f)
    OBVIOUS
  <1>2. Grows(v) /\ v.step \in {world.step, 5}
    BY <1>1, ProgressedGrows, GrowsSame
  <1>3. StTyped(new)
    BY DEF LoopFields
  <1>4. PICK rec : rec = Recorded(new, 5, f)
    OBVIOUS
  <1>5. LoopFields(rec) /\ rec.missing = st.missing /\ rec.uploaded = st.uploaded
        /\ rec.complete_sent = st.complete_sent /\ rec.prompt_sig = st.prompt_sig
    BY <1>3, <1>4, RecordedState DEF LoopFields
  <1>6. SaidSoFar(rec, said) /\ SaysMore(said)
    BY <1>5, SaidSoFarSame, SaysMoreSame
  <1>7. Loops(p, rec, v, r, said, f, {})
    BY <1>1, <1>4
  <1>. QED BY <1>2, <1>5, <1>6, <1>7, LoopsKeeps

\* The fee was settled while documents were being collected.
LEMMA FeeSettledKeeps ==
    ASSUME IInv, NEW p, Known(p), at = "documents_upload_loop_await", FeeSettled(p), mail' \subseteq mail
    PROVE  IInv'
  <1>1. PICK f \in ProgressFaults(5) :
            Loops(p, Recorded([st EXCEPT !.paid = TRUE, !.ready = TRUE, !.source = SourceOf(p)], 5, f),
                  Progressed(world, 5, f), {}, said, f, {})
    BY DEF FeeSettled
  <1>2. PICK new : new = [st EXCEPT !.paid = TRUE, !.ready = TRUE, !.source = SourceOf(p)]
    OBVIOUS
  <1>3. LoopFields(new) /\ new.missing = st.missing /\ new.uploaded = st.uploaded
        /\ new.complete_sent = st.complete_sent /\ new.prompt_sig = st.prompt_sig
    BY <1>2, SourceOfType DEF IInv, Typed, StTyped, LoopFields, NewState
  <1>4. f \in {0, 1} /\ claims' \subseteq Keys /\ {} \subseteq Reasons
    BY TypedKeys DEF ProgressFaults, FeeSettled, IInv
  <1>5. PICK r : r = {}
    OBVIOUS
  <1>6. Loops(p, Recorded(new, 5, f), Progressed(world, 5, f), r, said, f, {}) /\ r \subseteq Reasons
    BY <1>1, <1>2, <1>4, <1>5
  <1>. QED BY <1>3, <1>4, <1>6, TrackedLoop

\* The backend moved the application on while documents were being collected.
LEMMA ForcedStatusKeeps ==
    ASSUME IInv, NEW p, Known(p), at = "documents_upload_loop_await", ForcedStatus(p), mail' \subseteq mail
    PROVE  IInv'
  <1>. Typed
    BY DEF IInv
  <1>. DEFINE s   == StatusIn(p)
              new == [st EXCEPT !.status = s, !.source = SourceOf(p),
                                !.ready = @ \/ s \in QualifiedPlus, !.paid = @ \/ s \in Settled]
  <1>1. s \in JourneyStatuses /\ SourceOf(p) \in {"webhook", "poll"}
    BY StatusInType, SourceOfType DEF ForcedStatus
  <1>2. LoopFields(new) /\ new.missing = st.missing /\ new.uploaded = st.uploaded
        /\ new.complete_sent = st.complete_sent /\ new.prompt_sig = st.prompt_sig
    BY <1>1 DEF Typed, StTyped, LoopFields, NewState
  <1>3. claims' \subseteq Keys /\ {} \subseteq Reasons /\ Grows(world) /\ SaysMore(said)
    BY TypedKeys, GrowsSame, SaysMoreSame DEF ForcedStatus
  <1>4. \/ \E f \in ProgressFaults(5) : Loops(p, Recorded(new, 5, f), Progressed(world, 5, f), {}, said, f, {})
        \/ Loops(p, new, world, {}, said, 0, {})
    BY DEF ForcedStatus
  <1>. HIDE DEF new
  <1>5. ASSUME NEW f \in ProgressFaults(5), Loops(p, Recorded(new, 5, f), Progressed(world, 5, f), {}, said, f, {})
        PROVE  IInv'
    <2>1. f \in {0, 1}
      BY DEF ProgressFaults
    <2>. QED BY <1>2, <1>3, <1>5, <2>1, TrackedLoop
  <1>6. CASE Loops(p, new, world, {}, said, 0, {})
    <2>1. SaidSoFar(new, said)
      BY <1>2, SaidSoFarSame
    <2>. QED BY <1>2, <1>3, <1>6, <2>1, LoopsKeeps
  <1>. QED BY <1>4, <1>5, <1>6

\* One message more of a template
LEMMA SaysFields ==
    ASSUME Typed
    PROVE  /\ LET d == Says("prompt")
              IN  SaysMore(d) /\ d.prompt <= said.prompt + 1 /\ d.complete = said.complete
                  /\ d.confirmed = said.confirmed /\ d.offer_confirmed = said.offer_confirmed
                  /\ d.activated = said.activated /\ d.preview = said.preview
           /\ LET d == Says("complete")
              IN  SaysMore(d) /\ d.complete <= said.complete + 1 /\ d.prompt = said.prompt
                  /\ d.confirmed = said.confirmed /\ d.offer_confirmed = said.offer_confirmed
                  /\ d.activated = said.activated /\ d.preview = said.preview
           /\ LET d == Says("confirmed")
              IN  SaysMore(d) /\ d.confirmed <= said.confirmed + 1 /\ d.prompt = said.prompt
                  /\ d.complete = said.complete /\ d.offer_confirmed = said.offer_confirmed
                  /\ d.activated = said.activated /\ d.preview = said.preview
           /\ LET d == Says("offer_confirmed")
              IN  SaysMore(d) /\ d.offer_confirmed <= said.offer_confirmed + 1 /\ d.prompt = said.prompt
                  /\ d.complete = said.complete /\ d.confirmed = said.confirmed
                  /\ d.activated = said.activated /\ d.preview = said.preview
                  /\ (MaxSaid > 0 => d.offer_confirmed > 0)
           /\ LET d == Says("activated")
              IN  SaysMore(d) /\ d.activated = Capped(said.activated) /\ d.prompt = said.prompt
                  /\ d.complete = said.complete /\ d.confirmed = said.confirmed
                  /\ d.offer_confirmed = said.offer_confirmed /\ d.preview = said.preview
  <1>1. /\ said.prompt \in Nat /\ said.complete \in Nat /\ said.confirmed \in Nat
        /\ said.offer_confirmed \in Nat /\ said.activated \in Nat /\ said.unasked \in Nat
        /\ \A n \in 0 .. MaxOffers : said.preview[n] \in Nat
    BY DEF Typed, SaidTyped
  <1>2. \A k \in Nat : Capped(k) \in Nat /\ k <= Capped(k) /\ Capped(k) <= k + 1 /\ (MaxSaid > 0 => Capped(k) > 0)
    BY BoundsNat DEF Capped
  <1>3. ASSUME NEW t \in {"prompt", "complete", "confirmed", "offer_confirmed", "activated"}, NEW d, d = Says(t)
        PROVE  /\ DOMAIN d = DOMAIN said /\ d[t] = Capped(said[t])
               /\ \A u \in DOMAIN said : u # t => d[u] = said[u]
    BY <1>3 DEF Says, Typed, SaidTyped, Nothing
  <1>4. DOMAIN said = {"prompt", "complete", "confirmed", "offer_confirmed", "activated", "unasked", "preview"}
    BY DEF Typed, SaidTyped, Nothing
  <1>5. ASSUME NEW t \in {"prompt", "complete", "confirmed", "offer_confirmed", "activated"}, NEW d, d = Says(t)
        PROVE  /\ DOMAIN d = DOMAIN Nothing /\ d.preview = said.preview /\ d.unasked = said.unasked
               /\ t = "prompt" \/ d.prompt = said.prompt
               /\ t = "complete" \/ d.complete = said.complete
               /\ t = "confirmed" \/ d.confirmed = said.confirmed
               /\ t = "offer_confirmed" \/ d.offer_confirmed = said.offer_confirmed
               /\ t = "activated" \/ d.activated = said.activated
               /\ t = "prompt" => d.prompt = Capped(said.prompt)
               /\ t = "complete" => d.complete = Capped(said.complete)
               /\ t = "confirmed" => d.confirmed = Capped(said.confirmed)
               /\ t = "offer_confirmed" => d.offer_confirmed = Capped(said.offer_confirmed)
               /\ t = "activated" => d.activated = Capped(said.activated)
    BY <1>3, <1>4, <1>5 DEF Typed, SaidTyped
  <1>6. ASSUME NEW t \in {"prompt", "complete", "confirmed", "offer_confirmed", "activated"}, NEW d, d = Says(t)
        PROVE  SaysMore(d)
    <2>1. SaidTyped(d)
      BY <1>1, <1>2, <1>5, <1>6, ZenonT(40) DEF Typed, SaidTyped
    <2>. QED BY <1>1, <1>2, <1>5, <1>6, <2>1 DEF SaysMore
  <1>. QED BY <1>1, <1>2, <1>5, <1>6

\* The settle tick: what came in meanwhile is acknowledged, or the run goes on.
LEMMA SettlePromptKeeps ==
    ASSUME IInv, NEW p, Known(p), at = "documents_upload_loop_await", SettlePrompt(p), mail' \subseteq mail
    PROVE  IInv'
  <1>. Typed
    BY DEF IInv
  <1>1. claims' \subseteq Keys /\ rem \subseteq Reasons /\ Grows(world) /\ SaysMore(said)
    BY TypedKeys, GrowsSame, SaysMoreSame DEF SettlePrompt
  <1>2. PICK asked : asked = [st EXCEPT !.settle_prompted = TRUE]
    OBVIOUS
  <1>3. LoopFields(asked) /\ asked.missing = st.missing /\ asked.uploaded = st.uploaded
        /\ asked.complete_sent = st.complete_sent /\ asked.prompt_sig = st.prompt_sig
    BY <1>2 DEF Typed, StTyped, LoopFields, NewState
  <1>4. CASE Loops(p, asked, world, rem, said, 0, {})
    <2>1. SaidSoFar(asked, said)
      BY <1>3, SaidSoFarSame
    <2>. QED BY <1>1, <1>3, <1>4, <2>1, LoopsKeeps
  <1>5. PICK new : new = [asked EXCEPT !.prompt_sig = st.missing]
    OBVIOUS
  <1>6. CASE st.missing \notin {{}, st.prompt_sig} /\ Loops(p, new, world, rem, Says("prompt"), 0, {})
    <2>1. LoopFields(new) /\ new.missing = st.missing /\ new.uploaded = st.uploaded
          /\ new.complete_sent = st.complete_sent /\ new.prompt_sig = st.missing
      BY <1>3, <1>5 DEF Typed, StTyped, LoopFields, NewState
    <2>2. PICK d : d = Says("prompt")
      OBVIOUS
    <2>3. SaysMore(d) /\ d.prompt <= said.prompt + 1 /\ d.complete = said.complete
          /\ d.confirmed = said.confirmed /\ d.offer_confirmed = said.offer_confirmed
          /\ d.activated = said.activated /\ d.preview = said.preview
      BY <2>2, SaysFields
    <2>4. IsFiniteSet(st.prompt_sig) /\ IsFiniteSet(st.missing)
      BY DocsAssumption, FS_Subset DEF Typed, StTyped
    <2>5. /\ Cardinality(st.prompt_sig) \in Nat /\ Cardinality(st.missing) \in Nat /\ Cardinality(Docs) \in Nat
          /\ Cardinality(st.missing) <= Cardinality(Docs)
      BY <2>4, DocsAssumption, FS_CardinalityType, FS_Subset DEF Typed, StTyped
    <2>6. said.prompt \in Nat /\ d.prompt \in Nat /\ faults \in Nat
      BY <2>3, BoundsNat DEF Typed, SaidTyped, SaysMore
    <2>7. d.prompt + Cardinality(st.missing) <= faults + Cardinality(Docs) + 1
      <3>1. CASE st.prompt_sig = {}
        <4>1. said.prompt <= faults
          BY <3>1 DEF IInv, SaidIInv
        <4>. QED BY <2>3, <2>5, <2>6, <4>1
      <3>2. CASE st.prompt_sig # {}
        <4>1. /\ st.missing \subseteq st.prompt_sig
              /\ said.prompt + Cardinality(st.prompt_sig) <= faults + Cardinality(Docs) + 1
          BY <3>2 DEF IInv, SaidIInv
        <4>2. Cardinality(st.missing) < Cardinality(st.prompt_sig)
          BY <1>6, <2>4, <4>1, FS_Subset, FS_CardinalityType
        <4>. QED BY <2>3, <2>5, <2>6, <4>1, <4>2
      <3>. QED BY <3>1, <3>2
    <2>8. SaidSoFar(new, d)
      BY <1>6, <2>1, <2>3, <2>7 DEF SaidSoFar, IInv, SaidIInv
    <2>. QED BY <1>1, <1>6, <2>1, <2>2, <2>3, <2>8, LoopsKeeps
  <1>. QED BY <1>2, <1>4, <1>5, <1>6 DEF SettlePrompt

\* The SME says that all documents are there.
LEMMA DoneUploadingKeeps ==
    ASSUME IInv, NEW p, Known(p), at = "documents_upload_loop_await", DoneUploading(p), mail' \subseteq mail
    PROVE  IInv'
  <1>. Typed
    BY DEF IInv
  <1>1. claims' \subseteq Keys /\ rem \subseteq Reasons /\ Grows(world) /\ SaysMore(said)
    BY TypedKeys, GrowsSame, SaysMoreSame DEF DoneUploading
  <1>2. PICK new : new = [st EXCEPT !.proceed = TRUE, !.complete_sent = TRUE]
    OBVIOUS
  <1>3. LoopFields(new) /\ new.missing = st.missing /\ new.uploaded = st.uploaded
        /\ new.complete_sent = TRUE /\ new.prompt_sig = st.prompt_sig
    BY <1>2 DEF Typed, StTyped, LoopFields, NewState
  <1>4. PICK d : d = IF st.complete_sent THEN said ELSE Says("complete")
    OBVIOUS
  <1>5. Loops(p, new, world, rem, d, 0, {})
    BY <1>2, <1>4 DEF DoneUploading
  <1>6. faults \in Nat /\ said.complete \in Nat
    BY BoundsNat DEF Typed, SaidTyped
  <1>7. SaysMore(d) /\ SaidSoFar(new, d)
    <2>1. CASE st.complete_sent
      BY <1>1, <1>3, <1>4, <2>1 DEF SaidSoFar, IInv, SaidIInv, Once
    <2>2. CASE ~st.complete_sent
      <3>1. said.complete <= faults
        BY <1>6, <2>2 DEF IInv, SaidIInv, Once
      <3>2. SaysMore(d) /\ d.complete <= said.complete + 1 /\ d.prompt = said.prompt
            /\ d.confirmed = said.confirmed /\ d.offer_confirmed = said.offer_confirmed
            /\ d.activated = said.activated /\ d.preview = said.preview
        BY <1>4, <2>2, SaysFields
      <3>3. d.complete <= faults + 1
        BY <1>6, <3>1, <3>2 DEF SaysMore, SaidTyped
      <3>. QED BY <1>3, <3>2, <3>3 DEF SaidSoFar, IInv, SaidIInv, Once
    <2>. QED BY <2>1, <2>2
  <1>. QED BY <1>1, <1>3, <1>5, <1>7, LoopsKeeps

-----------------------------------------------------------------------------
(* The uploads *)

\* "More" only puts the loop into its earlier state; questions are answered.
LEMMA StaysInLoopKeeps ==
    ASSUME IInv, NEW p, Known(p), p # "poll", at = "documents_upload_loop_await", StaysInLoop(p),
           mail' \subseteq mail
    PROVE  IInv'
  <1>1. CalmState(st) /\ CalmState([st EXCEPT !.settle_prompted = FALSE])
    BY CalmStateSame, SteeringFields DEF IInv
  <1>2. CalmMove("documents_upload_loop_await", "documents_upload_loop_await")
    BY DEF CalmMove, Rank, Entry, Contacting, Consenting, Reporting, Expecting, Looping, Uploading
  <1>3. PICK new : new = [st EXCEPT !.settle_prompted = FALSE]
    OBVIOUS
  <1>4. CASE Reparks(new)
    BY <1>1, <1>2, <1>3, <1>4, ReparksKeeps
  <1>5. CASE Answers(p, st) /\ p \in {"ask", "rejected", "no"}
    <2>1. p \notin Ticks
      BY <1>5 DEF Ticks
    <2>. QED BY <1>1, <1>2, <1>5, <2>1, AnswersKeeps
  <1>. QED BY <1>3, <1>4, <1>5 DEF StaysInLoop

\* A saved document backs what the loop records of it.
LEMMA UploadSavedKeeps ==
    ASSUME IInv, NEW p \in Docs, Known(p), at = "documents_upload_loop_await",
           NEW filled \in SUBSET st.missing, NEW f \in {0, 1}, UploadSaved(p, filled, f),
           mail' \subseteq mail, claims' \subseteq Keys
    PROVE  IInv'
  <1>. Typed
    BY DEF IInv
  <1>1. PICK new : new = [st EXCEPT !.missing = @ \ filled, !.uploaded = TRUE, !.token = TRUE,
                                    !.acked = TRUE, !.settle_prompted = FALSE]
    OBVIOUS
  <1>2. LoopFields(new) /\ new.missing = st.missing \ filled
        /\ new.complete_sent = st.complete_sent /\ new.prompt_sig = st.prompt_sig
    BY <1>1 DEF Typed, StTyped, LoopFields, NewState
  <1>3. PICK v : v = [world EXCEPT !.saved = @ \cup {p}]
    OBVIOUS
  <1>4. Grows(v) /\ v.step = world.step /\ v.saved = world.saved \cup {p}
    BY <1>3, GrowsSame DEF Grows, WorldTyped, NewLead
  <1>5. Backed(v)
    BY <1>4 DEF Backed
  <1>6. PICK r \in {{}, rem} : r = IF new.missing = {} THEN {} ELSE rem
    OBVIOUS
  <1>7. r \subseteq Reasons /\ SaysMore(said)
    BY TypedKeys, SaysMoreSame
  <1>8. SaidSoFar(new, said)
    BY <1>2, SaidSoFarSame
  <1>9. Loops(p, new, v, r, said, f, {p})
    BY <1>1, <1>3, <1>6 DEF UploadSaved
  <1>. QED BY <1>2, <1>4, <1>5, <1>7, <1>8, <1>9, LoopsKeeps

\* A document that was not saved leaves what is missing as it was.
LEMMA UploadKeepsLoop ==
    ASSUME IInv, NEW p, Known(p), at = "documents_upload_loop_await", Upload(p), mail' \subseteq mail
    PROVE  IInv'
  <1>. Typed
    BY DEF IInv
  <1>1. PICK first \in BOOLEAN, f \in {0, 1} :
            /\ p \in Docs
            /\ first = (p \notin claims \/ f = 1)
            /\ IF first
               THEN /\ claims' = (claims \ {"settle"}) \cup (IF f = 1 THEN {} ELSE {p})
                    /\ \/ \E filled \in SUBSET st.missing : UploadSaved(p, filled, f)
                       \/ UploadFailed(p, f)
               ELSE /\ UNCHANGED claims
                    /\ Loops(p, st, world, rem, said, f, {p})
    BY DEF Upload
  <1>2. claims' \subseteq Keys /\ rem \subseteq Reasons /\ Grows(world) /\ SaysMore(said)
    BY <1>1, TypedKeys, GrowsSame, SaysMoreSame DEF Keys
  <1>3. ASSUME NEW filled \in SUBSET st.missing, UploadSaved(p, filled, f)
        PROVE  IInv'
    BY <1>1, <1>2, <1>3, UploadSavedKeeps
  <1>4. CASE UploadFailed(p, f)
    <2>1. PICK new : new = [st EXCEPT !.settle_prompted = FALSE]
      OBVIOUS
    <2>2. LoopFields(new) /\ new.missing = st.missing /\ new.uploaded = st.uploaded
          /\ new.complete_sent = st.complete_sent /\ new.prompt_sig = st.prompt_sig
      BY <2>1 DEF Typed, StTyped, LoopFields, NewState
    <2>3. SaidSoFar(new, said)
      BY <2>2, SaidSoFarSame
    <2>4. Loops(p, new, world, rem, said, f + 1, {}) /\ f + 1 \in Nat
      BY <1>4, <2>1 DEF UploadFailed
    <2>. QED BY <1>2, <2>2, <2>3, <2>4, LoopsKeeps
  <1>5. CASE Loops(p, st, world, rem, said, f, {p})
    <2>1. LoopFields(st) /\ SaidSoFar(st, said) /\ p \in Docs
      BY <1>1, SaidSoFarSame DEF LoopFields, Typed
    <2>. QED BY <1>2, <1>5, <2>1, LoopsKeeps
  <1>. QED BY <1>1, <1>3, <1>4, <1>5

\* Every answer in the loop keeps the invariant.
LEMMA DocumentsUploadLoopAwaitKeeps == ASSUME IInv, DocumentsUploadLoopAwait PROVE IInv'
  <1>. DEFINE sme == Docs \cup {"more", "done", "no", "ask"}
  <1>1. PICK p \in sme \cup Synthetic :
            /\ Resumed("documents_upload_loop_await", p, sme)
            /\ \/ FeeSettled(p)
               \/ ForcedStatus(p)
               \/ SettlePrompt(p)
               \/ DoneUploading(p)
               \/ StaysInLoop(p)
               \/ Upload(p)
    BY DEF DocumentsUploadLoopAwait
  <1>2. sme \subseteq Payloads /\ sme \cap Ticks = {}
    BY NamesAssumption DEF Payloads, Ticks, Synthetic
  <1>. HIDE DEF sme
  <1>3. Rank("documents_upload_loop_await") = 5
    BY LoopRanks
  <1>4. at = "documents_upload_loop_await" /\ mail' \subseteq mail /\ Known(p) /\ p # "poll"
    BY <1>1, <1>2, <1>3, ResumedWith DEF IInv
  <1>. QED BY <1>1, <1>4, FeeSettledKeeps, ForcedStatusKeeps, SettlePromptKeeps, DoneUploadingKeeps,
              StaysInLoopKeeps, UploadKeepsLoop

\* Completion is announced when nothing is missing and it was not announced yet.
LEMMA DocumentsCompleteKeeps == ASSUME IInv, DocumentsComplete PROVE IInv'
  <1>. Typed
    BY DEF IInv
  <1>1. PICK f \in ProgressFaults(5) :
            Node("documents_complete", "documents_upload_loop_await",
                 Recorded([st EXCEPT !.complete_sent = TRUE], 5, f), Progressed(world, 5, f), rem,
                 Says("complete"), f)
    BY DEF DocumentsComplete
  <1>2. f \in {0, 1}
    BY DEF ProgressFaults
  <1>3. PICK base : base = [st EXCEPT !.complete_sent = TRUE]
    OBVIOUS
  <1>4. LoopFields(base) /\ base.missing = st.missing /\ base.uploaded = st.uploaded
        /\ base.paid = st.paid /\ base.complete_sent = TRUE /\ base.prompt_sig = st.prompt_sig
    BY <1>3 DEF Typed, StTyped, LoopFields, NewState
  <1>5. PICK new : new = Recorded(base, 5, f)
    OBVIOUS
  <1>6. LoopFields(new) /\ new.missing = st.missing /\ new.uploaded = st.uploaded
        /\ new.paid = st.paid /\ new.complete_sent = TRUE /\ new.prompt_sig = st.prompt_sig
    BY <1>4, <1>5, RecordedState DEF LoopFields
  <1>7. PICK v : v = Progressed(world, 5, f)
    OBVIOUS
  <1>8. Grows(v) /\ v.step \in {world.step, 5}
    BY <1>7, ProgressedGrows, GrowsSame
  <1>9. PICK d : d = Says("complete")
    OBVIOUS
  <1>10. SaysMore(d) /\ d.complete <= said.complete + 1 /\ d.prompt = said.prompt
         /\ d.confirmed = said.confirmed /\ d.offer_confirmed = said.offer_confirmed
         /\ d.activated = said.activated /\ d.preview = said.preview
    BY <1>9, SaysFields
  <1>11. Node("documents_complete", "documents_upload_loop_await", new, v, rem, d, f)
    BY <1>1, <1>3, <1>5, <1>7, <1>9
  <1>12. /\ at = "documents_complete" /\ mail' \subseteq mail /\ claims' \subseteq Keys
         /\ files' = files /\ rem \subseteq Reasons
    BY <1>11, TypedKeys DEF Node, At
  <1>13. CASE Raises(NoInput, v, rem, d, f)
    <2>1. Reports(5)
      BY <1>12, LoopRanks DEF Reports
    <2>. QED BY <1>2, <1>8, <1>10, <1>12, <1>13, <2>1, BrokenTracks, NoInputKnown
  <1>14. CASE RunsTo("documents_upload_loop_await", new, v, rem, d, f)
    <2>1. Rank(at) <= Rank("documents_upload_loop_await") /\ Rank(at) = 5
      BY <1>12, LoopRanks
    <2>2. StTyped(new) /\ WorldTyped(v) /\ SaidTyped(d) /\ f \in Nat
      BY <1>2, <1>6, <1>8, <1>10 DEF LoopFields, Grows, SaysMore
    <2>3. /\ Typed' /\ MailIInv'
          /\ at' = "documents_upload_loop_await" /\ st' = new /\ world' = v /\ said' = d
          /\ faults' = faults + f /\ FaultsUp /\ faults \in Nat /\ faults' \in Nat
      BY <1>12, <1>14, <2>1, <2>2, RunsParts
    <2>4. PaidIInv'
      BY <1>6, <2>1, <2>3 DEF PaidIInv, IInv
    <2>5. ShownIInv'
      BY <1>6, <1>8, <1>10, <2>1, <2>3, CalmShownKeeps, LoopRanks
         DEF CalmShown, IInv, Grows, WorldTyped, LoopFields
    <2>6. StepsIInv'
      BY <1>8, <2>1, <2>3, TrackedSteps, LoopRanks
    <2>7. FilesKept'
      BY <1>6, <1>8, <1>12, <2>3 DEF FilesKept, IInv, FilesIInv, LoopFields, Grows
    <2>8. Backed(world) => Backed(v)
      BY <1>8 DEF Backed, Grows
    <2>9. FilesIInv'
      BY <1>6, <1>8, <1>12, <2>3, <2>7, <2>8 DEF FilesIInv, IInv, Looping, Grows
    <2>10. SaidIInv'
      <3>1. said.complete <= faults
        <4>1. ~st.complete_sent /\ said.complete <= faults + Once(st.complete_sent)
          BY <1>12 DEF IInv, SaidIInv
        <4>2. said.complete \in Nat /\ faults \in Nat
          BY <2>3 DEF Typed, SaidTyped
        <4>. QED BY <4>1, <4>2 DEF Once
      <3>2. said.complete \in Nat /\ d.complete \in Nat /\ d.complete <= said.complete + 1
        BY <1>10 DEF Typed, SaidTyped, SaysMore
      <3>3. (said.complete <= faults + Once(st.complete_sent))'
        BY <1>6, <2>3, <3>1, <3>2 DEF Once, FaultsUp
      <3>4. /\ said.confirmed \in Nat /\ said.offer_confirmed \in Nat /\ said.activated \in Nat
            /\ said.prompt \in Nat /\ faults <= faults'
        BY <2>3 DEF Typed, SaidTyped, FaultsUp
      <3>5. Cardinality(Docs) \in Nat /\ Cardinality(st.prompt_sig) \in Nat
        BY DocsAssumption, FS_CardinalityType, FS_Subset DEF Typed, StTyped
      <3>6. Once(st.confirmed_sent) \in Nat /\ Once(st.offer_confirmed_sent) \in Nat
        BY DEF Once
      <3>7. /\ (said.confirmed <= faults + Once(st.confirmed_sent))'
            /\ (said.offer_confirmed <= faults + Once(st.offer_confirmed_sent))'
        BY <1>6, <1>10, <2>3, <3>4, <3>6 DEF LoopFields, IInv, SaidIInv
      <3>8. /\ (st.prompt_sig = {} => said.prompt <= faults)'
            /\ (st.prompt_sig # {} => st.missing \subseteq st.prompt_sig)'
            /\ (st.prompt_sig # {} => said.prompt + Cardinality(st.prompt_sig) <= faults + Cardinality(Docs) + 1)'
        BY <1>6, <1>10, <2>3, <3>4, <3>5 DEF IInv, SaidIInv
      <3>9. /\ (said.activated > 0 => said.offer_confirmed > 0 \/ faults > 0)'
            /\ (st.offer_confirmed_sent /\ MaxSaid > 0 => said.offer_confirmed > 0)'
            /\ (said.unasked = 0)'
        BY <1>6, <1>10, <2>3, <3>4 DEF LoopFields, SaysMore, IInv, SaidIInv
      <3>. QED BY <2>1, <2>3, <3>3, <3>7, <3>8, <3>9, LoopRanks DEF SaidIInv
    <2>. QED BY <2>3, <2>4, <2>5, <2>6, <2>9, <2>10 DEF IInv
  <1>. QED BY <1>11, <1>13, <1>14 DEF Node

-----------------------------------------------------------------------------
(* The funding half: nodes that leave the documents alone *)

\* The fields no node behind the documents loop writes
FundingFields(new) ==
    /\ StTyped(new)
    /\ new.extras = st.extras /\ new.missing = st.missing /\ new.uploaded = st.uploaded
    /\ new.complete_sent = st.complete_sent /\ new.prompt_sig = st.prompt_sig

\* The confirmations and the offers
SameNotes(new) ==
    /\ new.confirmed_sent = st.confirmed_sent /\ new.offer_confirmed_sent = st.offer_confirmed_sent
    /\ new.preview = st.preview /\ new.reg_offers = st.reg_offers /\ new.offers = st.offers

\* Where such a node may go, given what it makes of the fee
FundingMove(next, new) ==
    /\ Rank(at) >= 5 /\ Rank(next) >= 5
    /\ Rank(next) = 5 => Rank(at) = 5 /\ next = "payment_wait_await"
    /\ Rank(next) <= 6 => ~new.paid

\* What holds after it, whatever it says and reports
LEMMA FundingRuns ==
    ASSUME IInv, NEW next, NEW new, NEW w, NEW r, NEW s, NEW f \in Nat,
           RunsTo(next, new, w, r, s, f), FundingFields(new), FundingMove(next, new),
           Grows(w), SaysMore(s), r \subseteq Reasons,
           mail' \subseteq mail, claims' \subseteq Keys, files' = files
    PROVE  /\ Typed' /\ MailIInv' /\ FilesIInv' /\ PaidIInv'
           /\ at' = next /\ st' = new /\ world' = w /\ said' = s
           /\ faults' = faults + f /\ FaultsUp /\ faults \in Nat /\ faults' \in Nat
  <1>. Typed
    BY DEF IInv
  <1>1. Rank(at) \in 5 .. 7 /\ Rank(next) \in 5 .. 7
    BY RankNat DEF FundingMove
  <1>2. Rank(next) <= 5 => Rank(at) <= Rank(next)
    BY <1>1 DEF FundingMove
  <1>3. /\ Typed' /\ MailIInv'
        /\ at' = next /\ st' = new /\ world' = w /\ said' = s
        /\ faults' = faults + f /\ FaultsUp /\ faults \in Nat /\ faults' \in Nat
    BY <1>2, RunsParts DEF FundingFields, Grows, SaysMore
  <1>4. next \notin Looping /\ next # "documents_complete" /\ at \notin Uploading
    BY <1>1, RankOf DEF FundingMove, Looping, Uploading, Consenting, Reporting
  <1>5. FilesIInv'
    BY <1>3, <1>4, CalmFilesKeeps DEF CalmFiles, FundingFields, Grows, IInv
  <1>6. PaidIInv'
    BY <1>3 DEF FundingMove, PaidIInv
  <1>. QED BY <1>3, <1>5, <1>6

\* It says nothing and shows nothing.
LEMMA FundingQuiet ==
    ASSUME IInv, NEW next, NEW new, NEW w, NEW r, NEW f \in Nat,
           RunsTo(next, new, w, r, said, f), FundingFields(new), SameNotes(new), FundingMove(next, new),
           next # "offer_view_send", Grows(w), r \subseteq Reasons,
           mail' \subseteq mail, claims' \subseteq Keys, files' = files
    PROVE  /\ Typed' /\ MailIInv' /\ FilesIInv' /\ PaidIInv' /\ SaidIInv' /\ ShownIInv'
           /\ at' = next /\ st' = new /\ world' = w /\ faults' = faults + f /\ FaultsUp
  <1>1. SaysMore(said)
    BY SaysMoreSame DEF IInv
  <1>2. /\ Typed' /\ MailIInv' /\ FilesIInv' /\ PaidIInv'
        /\ at' = next /\ st' = new /\ world' = w /\ said' = said
        /\ faults' = faults + f /\ FaultsUp /\ faults \in Nat /\ faults' \in Nat
    BY <1>1, FundingRuns
  <1>3. Rank(next) \in 5 .. 7 /\ next # "documents_complete"
    BY RankNat, LoopRanks DEF FundingMove
  <1>4. SaidIInv'
    BY <1>2, <1>3, CalmSaidKeeps DEF CalmSaid, FundingFields, SameNotes, IInv
  <1>5. ShownIInv'
    BY <1>2, <1>3, CalmShownKeeps DEF CalmShown, SameNotes, Grows, WorldTyped, IInv
  <1>. QED BY <1>2, <1>4, <1>5

\* Nor does it report a step.  A run that is billed again has not paid.
FundingCalm(next, new) ==
    /\ new.step = st.step
    /\ \/ Rank(at) = 5
       \/ Rank(at) = 6 /\ Rank(next) = 6 /\ (at = "payment_await" => next = "payment_await")
       \/ Rank(next) = 7 /\ new.paid
       \/ Rank(at) = 7 /\ at # "offers_fetch" /\ (st.paid => new.paid)

\* A step of the funding phase that says nothing, from the fields it assigns.
LEMMA FundingQuietKeeps ==
    ASSUME IInv, NEW next, NEW new, NEW w, NEW r, NEW f \in Nat,
           RunsTo(next, new, w, r, said, f), FundingFields(new), SameNotes(new), FundingMove(next, new),
           FundingCalm(next, new), next # "offer_view_send", Grows(w), w.step = world.step, r \subseteq Reasons,
           mail' \subseteq mail, claims' \subseteq Keys, files' = files
    PROVE  IInv'
  <1>1. /\ Typed' /\ MailIInv' /\ FilesIInv' /\ PaidIInv' /\ SaidIInv' /\ ShownIInv'
        /\ at' = next /\ st' = new /\ world' = w /\ faults' = faults + f /\ FaultsUp
    BY FundingQuiet
  <1>2. Rank(at) \in 5 .. 7 /\ Rank(next) \in 5 .. 7 /\ world.step \in 0 .. 8
    BY RankNat DEF FundingMove, IInv, Typed, WorldTyped
  <1>3. (at \in Billing <=> Rank(at) = 6) /\ (next \in Billing <=> Rank(next) = 6)
    BY RankOf
  <1>4. faults \in Nat /\ faults' \in Nat /\ faults <= faults'
    BY <1>1, BoundsNat DEF IInv, Typed, FaultsUp
  <1>5. world'.step = world.step /\ st'.step = st.step
    BY <1>1 DEF FundingCalm
  <1>6. ASSUME Rank(at) = 5
        PROVE  StepsIInv'
    <2>1. world.step <= 5
      BY <1>2, <1>6 DEF IInv, StepsIInv
    <2>. QED BY <1>1, <1>2, <1>5, <2>1 DEF StepsIInv
  <1>7. ASSUME Rank(at) = 6 /\ Rank(next) = 6 /\ (at = "payment_await" => next = "payment_await")
        PROVE  StepsIInv'
    BY <1>1, <1>2, <1>3, <1>4, <1>5, <1>7 DEF IInv, StepsIInv
  <1>8. ASSUME Rank(next) = 7 /\ new.paid
        PROVE  StepsIInv'
    BY <1>1, <1>3, <1>8 DEF StepsIInv
  <1>9. ASSUME Rank(at) = 7 /\ at # "offers_fetch" /\ (st.paid => new.paid)
        PROVE  StepsIInv'
    <2>1. ~new.paid => world.step <= 6 \/ st.step = 8 \/ faults > 1
      BY <1>9 DEF IInv, StepsIInv
    <2>2. CASE Rank(next) = 7
      BY <1>1, <1>3, <1>4, <1>5, <2>1, <2>2 DEF StepsIInv
    <2>3. CASE Rank(next) = 6
      BY <1>1, <1>3, <1>4, <1>5, <2>1, <2>3 DEF StepsIInv, FundingMove
    <2>4. Rank(next) # 5
      BY <1>9 DEF FundingMove
    <2>. QED BY <1>2, <2>2, <2>3, <2>4
  <1>10. StepsIInv'
    BY <1>6, <1>7, <1>8, <1>9 DEF FundingCalm
  <1>. QED BY <1>1, <1>10 DEF IInv

\* The same of a node that may break off
LEMMA FundingNodeKeeps ==
    ASSUME IInv, NEW n, NEW next, NEW new, NEW w, NEW r, NEW f \in Nat,
           Node(n, next, new, w, r, said, f), FundingFields(new), SameNotes(new), FundingMove(next, new),
           FundingCalm(next, new), next # "offer_view_send", Grows(w), w.step = world.step, r \subseteq Reasons
    PROVE  IInv'
  <1>1. mail' \subseteq mail /\ claims' \subseteq Keys /\ files' = files /\ SaysMore(said)
    BY TypedKeys, SaysMoreSame DEF Node, IInv
  <1>2. CASE RunsTo(next, new, w, r, said, f)
    BY <1>1, <1>2, FundingQuietKeeps
  <1>3. CASE Raises(NoInput, w, r, said, f)
    BY <1>1, <1>3, BrokenKeeps, NoInputKnown
  <1>. QED BY <1>2, <1>3 DEF Node

\* Answering and parking again, whatever becomes of the steering fields
LEMMA FundingParks ==
    ASSUME IInv, NEW p, p \notin Ticks, NEW new, Answers(p, new) \/ Reparks(new), mail' \subseteq mail,
           FundingFields(new), SameNotes(new), FundingMove(at, new), FundingCalm(at, new), at # "offer_view_send"
    PROVE  IInv'
  <1>1. /\ RunsTo(at, new, world, rem, said, 0)
        /\ claims' \subseteq Keys /\ files' = files /\ rem \subseteq Reasons /\ Grows(world)
    BY TypedKeys, GrowsSame DEF Answers, Reparks, IInv
  <1>. QED BY <1>1, FundingQuietKeeps

\* A state of the funding phase left as it is.
LEMMA FundingSame ==
    ASSUME Typed
    PROVE  FundingFields(st) /\ SameNotes(st)
  BY DEF Typed, FundingFields, SameNotes

-----------------------------------------------------------------------------
(* The wait for the assessment *)

\* payment_wait_await, once the application is ready, asks for the fee only if it is not paid.
LEMMA PaymentRoutes ==
    ASSUME NEW s, s.ready
    PROVE  LET next == RoutePaymentWait(s)
           IN  (s.paid => next = "lender_status_poll") /\ (~s.paid => next = "business_details_fetch")
  <1>1. CASE s.paid
    BY <1>1 DEF RoutePaymentWait
  <1>2. CASE ~s.paid
    BY <1>2 DEF RoutePaymentWait
  <1>. QED BY <1>1, <1>2

\* payment_wait_await
LEMMA PaymentWaitAwaitKeeps == ASSUME IInv, PaymentWaitAwait PROVE IInv'
  <1>. Typed
    BY DEF IInv
  <1>1. PICK p \in {"file", "ask"} \cup Synthetic :
        LET settled == [st EXCEPT !.paid = TRUE, !.ready = TRUE, !.source = SourceOf(p)]
            new     == CASE p \in FeeEvents          -> settled
                         [] StatusIn(p) \in Settled  -> [settled EXCEPT !.status = StatusIn(p)]
                         [] OTHER                    -> [st EXCEPT !.ready = TRUE]
        IN  /\ Resumed("payment_wait_await", p, {"file", "ask"})
            /\ \/ /\ p \in FeeEvents \cup StatusEvents
                  /\ RunsTo(RoutePaymentWait(new), new, world, rem, said, 0)
                  /\ UNCHANGED <<claims, files>>
               \/ p \in Ticks \cup {"rejected"} /\ Reparks(st)
               \/ p = "file" /\ CapturesAdditional(p)
               \/ p = "ask" /\ Answers(p, st)
    BY DEF PaymentWaitAwait
  <1>2. {"file", "ask"} \subseteq Payloads /\ {"file", "ask"} \cap Ticks = {}
    BY DEF Payloads, Ticks
  <1>3. at = "payment_wait_await" /\ mail' \subseteq mail /\ Known(p)
    BY <1>1, <1>2, ResumedWith DEF IInv
  <1>4. CalmState(st) /\ CalmMove("payment_wait_await", "payment_wait_await")
    BY CalmStateSame DEF CalmMove, Rank, Entry, Contacting, Consenting, Reporting, Expecting, Looping, Uploading
  <1>5. CASE Reparks(st)
    BY <1>3, <1>4, <1>5, ReparksKeeps
  <1>6. CASE p = "file" /\ CapturesAdditional(p)
    BY <1>3, <1>6, CapturesAdditionalKeeps
  <1>7. CASE p = "ask" /\ Answers(p, st)
    BY <1>3, <1>4, <1>7, AnswersKeeps DEF Ticks
  <1>. DEFINE settled == [st EXCEPT !.paid = TRUE, !.ready = TRUE, !.source = SourceOf(p)]
              new     == CASE p \in FeeEvents          -> settled
                           [] StatusIn(p) \in Settled  -> [settled EXCEPT !.status = StatusIn(p)]
                           [] OTHER                    -> [st EXCEPT !.ready = TRUE]
  <1>8. ASSUME RunsTo(RoutePaymentWait(new), new, world, rem, said, 0), UNCHANGED <<claims, files>>
        PROVE  IInv'
    <2>1. SourceOf(p) \in {"webhook", "poll"} /\ (p \in FeeEvents => StatusIn(p) \notin Settled)
      BY SourceOfType DEF FeeEvents, StatusIn, StatusEvents, EventStatus, Settled
    <2>2. /\ FundingFields(new) /\ SameNotes(new) /\ new.ready /\ new.step = st.step
      <3>1. CASE p \in FeeEvents
        <4>1. new = settled
          BY <2>1, <3>1
        <4>. QED BY <2>1, <4>1 DEF Typed, StTyped, FundingFields, SameNotes, NewState
      <3>2. CASE StatusIn(p) \in Settled
        <4>1. new = [settled EXCEPT !.status = StatusIn(p)]
          BY <2>1, <3>2
        <4>2. StatusIn(p) \in JourneyStatuses
          BY <3>2 DEF JourneyStatuses, QualifiedPlus
        <4>3. PICK s \in JourneyStatuses, c \in {"webhook", "poll"} : s = StatusIn(p) /\ c = SourceOf(p)
          BY <2>1, <4>2
        <4>4. PICK base : base = [st EXCEPT !.paid = TRUE, !.ready = TRUE, !.source = c]
          OBVIOUS
        <4>5. StTyped(base) /\ FundingFields(base) /\ SameNotes(base) /\ base.ready /\ base.step = st.step
          BY <4>4 DEF Typed, StTyped, FundingFields, SameNotes, NewState
        <4>6. new = [base EXCEPT !.status = s]
          BY <4>1, <4>3, <4>4
        <4>. HIDE DEF new
        <4>. QED BY <4>5, <4>6 DEF Typed, StTyped, FundingFields, SameNotes, NewState
      <3>3. CASE p \notin FeeEvents /\ StatusIn(p) \notin Settled
        <4>1. new = [st EXCEPT !.ready = TRUE]
          BY <3>3
        <4>. HIDE DEF new
        <4>. QED BY <4>1 DEF Typed, StTyped, FundingFields, SameNotes, NewState
      <3>. QED BY <3>1, <3>2, <3>3
    <2>. HIDE DEF new
    <2>3. PICK next : next = RoutePaymentWait(new)
      OBVIOUS
    <2>4. (new.paid => next = "lender_status_poll") /\ (~new.paid => next = "business_details_fetch")
      BY <2>2, <2>3, PaymentRoutes
    <2>5. FundingMove(next, new) /\ FundingCalm(next, new) /\ next # "offer_view_send"
      BY <1>3, <2>2, <2>4, LoopRanks DEF FundingMove, FundingCalm
    <2>6. claims' \subseteq Keys /\ files' = files /\ Grows(world) /\ rem \subseteq Reasons
      BY <1>8, TypedKeys, GrowsSame
    <2>7. RunsTo(next, new, world, rem, said, 0)
      BY <1>8, <2>3
    <2>. QED BY <1>3, <2>2, <2>5, <2>6, <2>7, FundingQuietKeeps
  <1>. QED BY <1>1, <1>5, <1>6, <1>7, <1>8

-----------------------------------------------------------------------------
(* The fee *)

\* The nodes that prepare the payment follow one another.
LEMMA BillingMoves ==
    /\ CalmMove("business_details_fetch", "products_list_fetch")
    /\ CalmMove("products_list_fetch", "payment_create")
    /\ CalmMove("payment_create", "payment_send_link")
  BY DEF CalmMove, Rank, Entry, Contacting, Consenting, Reporting, Expecting, Looping, Billing, Uploading

\* What they write into the state is calm.
LEMMA FeeFields ==
    ASSUME Typed, NEW b
    PROVE  /\ CalmState([st EXCEPT !.business = b, !.token = TRUE])
           /\ CalmState([st EXCEPT !.product = b, !.token = TRUE])
           /\ CalmState([st EXCEPT !.link = b])
  BY DEF Typed, StTyped, CalmState, CalmFields, NewState

\* business_details_fetch, products_list_fetch and payment_create
LEMMA PaymentPreparedKeeps ==
    ASSUME IInv, BusinessDetailsFetch \/ ProductsListFetch \/ PaymentCreate
    PROVE  IInv'
  <1>. Typed
    BY DEF IInv
  <1>1. CASE BusinessDetailsFetch
    BY <1>1, PureKeeps, BillingMoves, FeeFields DEF BusinessDetailsFetch
  <1>2. CASE ProductsListFetch
    BY <1>2, PureKeeps, BillingMoves, FeeFields DEF ProductsListFetch
  <1>3. CASE PaymentCreate
    <2>1. CASE Pure("payment_create", "payment_send_link", st, 0)
      BY <2>1, PureKeeps, BillingMoves, CalmStateSame
    <2>2. PICK w : w = [world EXCEPT !.payment = TRUE]
      OBVIOUS
    <2>3. Grows(w) /\ w.step = world.step /\ rem \subseteq Reasons
      BY <2>2, GrowsSame, TypedKeys DEF Grows, WorldTyped, NewLead
    <2>4. PICK new : new = [st EXCEPT !.link = TRUE]
      OBVIOUS
    <2>5. CalmState(new)
      BY <2>4, FeeFields
    <2>6. CASE Node("payment_create", "payment_send_link", new, w, rem, said, 0)
      BY <2>3, <2>5, <2>6, NodeKeeps, BillingMoves
    <2>. QED BY <1>3, <2>1, <2>2, <2>4, <2>6 DEF PaymentCreate
  <1>. QED BY <1>1, <1>2, <1>3

\* The request goes out, and step 6 with it.
LEMMA PaymentSendLinkKeeps == ASSUME IInv, PaymentSendLink PROVE IInv'
  <1>. Typed
    BY DEF IInv
  <1>1. PICK f \in ProgressFaults(6) :
            Node("payment_send_link", "payment_await", st, Progressed(world, 6, f),
                 rem \cup {"payment_pending"}, said, f)
    BY DEF PaymentSendLink
  <1>2. f \in {0, 1}
    BY DEF ProgressFaults
  <1>3. PICK v : v = Progressed(world, 6, f)
    OBVIOUS
  <1>4. Grows(v) /\ v.step \in {world.step, 6}
    BY <1>3, ProgressedGrows, GrowsSame
  <1>5. PICK r : r = rem \cup {"payment_pending"}
    OBVIOUS
  <1>6. Node("payment_send_link", "payment_await", st, v, r, said, f)
    BY <1>1, <1>3, <1>5
  <1>7. /\ at = "payment_send_link" /\ mail' \subseteq mail /\ claims' \subseteq Keys
        /\ files' = files /\ r \subseteq Reasons /\ SaysMore(said)
    BY <1>5, <1>6, TypedKeys, SaysMoreSame DEF Node, At, Reasons
  <1>8. Rank("payment_send_link") = 6 /\ Rank("payment_await") = 6
    BY DEF Rank, Entry, Contacting, Consenting, Reporting, Expecting, Looping, Billing
  <1>9. CASE Raises(NoInput, v, r, said, f)
    <2>1. Reports(6)
      BY <1>7, <1>8 DEF Reports
    <2>. QED BY <1>2, <1>4, <1>7, <1>9, <2>1, BrokenTracks, NoInputKnown
  <1>10. CASE RunsTo("payment_await", st, v, r, said, f)
    <2>1. FundingFields(st) /\ SameNotes(st) /\ FundingMove("payment_await", st)
      BY <1>7, <1>8, FundingSame DEF FundingMove, IInv, PaidIInv
    <2>2. /\ Typed' /\ MailIInv' /\ FilesIInv' /\ PaidIInv' /\ SaidIInv' /\ ShownIInv'
          /\ at' = "payment_await" /\ st' = st /\ world' = v /\ faults' = faults + f /\ FaultsUp
      BY <1>2, <1>4, <1>7, <1>10, <2>1, FundingQuiet
    <2>3. world.step <= 6 \/ st.step = 8 \/ faults > 1
      BY <1>7, <1>8, RankOf DEF IInv, StepsIInv
    <2>4. faults \in Nat /\ faults' \in Nat /\ faults <= faults'
      BY <2>2, BoundsNat DEF Typed, FaultsUp
    <2>5. StepsIInv'
      BY <1>4, <1>8, <2>2, <2>3, <2>4 DEF StepsIInv
    <2>. QED BY <2>2, <2>5 DEF IInv
  <1>. QED BY <1>6, <1>9, <1>10 DEF Node

\* An action of payment_await may set the fee either way, and the status.
FeeState(new) == FundingFields(new) /\ SameNotes(new) /\ new.step = st.step

\* What payment_await may write into the state
LEMMA FeeStates ==
    ASSUME Typed, NEW s \in JourneyStatuses \cup {"NONE"}, NEW c \in {"webhook", "poll", "chat"}, NEW b
    PROVE  /\ LET new == [st EXCEPT !.paid = TRUE]
              IN  FeeState(new) /\ new.paid = TRUE
           /\ LET new == [st EXCEPT !.paid = FALSE]
              IN  FeeState(new) /\ new.paid = FALSE
           /\ LET new == [st EXCEPT !.paid = TRUE, !.source = c, !.status = s]
              IN  FeeState(new) /\ new.paid = TRUE
           /\ LET new == [st EXCEPT !.paid = TRUE, !.source = c]
              IN  FeeState(new) /\ new.paid = TRUE
           /\ LET new == [st EXCEPT !.source = c]
              IN  FeeState(new) /\ new.paid = st.paid
           /\ LET new == [st EXCEPT !.source = c, !.status = s]
              IN  FeeState(new) /\ new.paid = st.paid
           /\ LET new == [st EXCEPT !.status = s, !.token = b, !.source = IF @ = "none" THEN c ELSE @]
              IN  FeeState(new) /\ new.paid = st.paid /\ new.status = s
  BY DEF Typed, StTyped, FeeState, FundingFields, SameNotes, NewState

\* What a parked run may do at payment_await without a word
LEMMA FeeMoves ==
    ASSUME IInv, at = "payment_await", NEW new, FeeState(new), NEW next,
           \/ next = "payment_await" /\ ~new.paid
           \/ next = "lender_status_poll" /\ new.paid
    PROVE  FundingMove(next, new) /\ FundingCalm(next, new) /\ next # "offer_view_send"
  <1>1. Rank("payment_await") = 6 /\ Rank("lender_status_poll") = 7
    BY DEF Rank, Entry, Contacting, Consenting, Reporting, Expecting, Looping, Billing
  <1>. QED BY <1>1 DEF FundingMove, FundingCalm, FeeState

\* payment_await goes on if and only if the fee is settled.
LEMMA FeeRunsKeeps ==
    ASSUME IInv, at = "payment_await", NEW new, FeeState(new), NEW next, NEW r, NEW f \in Nat,
           \/ next = "payment_await" /\ ~new.paid
           \/ next = "lender_status_poll" /\ new.paid,
           RunsTo(next, new, world, r, said, f), r \subseteq Reasons,
           mail' \subseteq mail, claims' \subseteq Keys, files' = files
    PROVE  IInv'
  <1>1. FundingMove(next, new) /\ FundingCalm(next, new) /\ next # "offer_view_send"
    BY FeeMoves
  <1>2. FundingFields(new) /\ SameNotes(new) /\ Grows(world)
    BY GrowsSame DEF FeeState, IInv
  <1>. QED BY <1>1, <1>2, FundingQuietKeeps

\* The fee is confirmed once, with step 7.
LEMMA ConfirmsPaymentKeeps ==
    ASSUME IInv, NEW p, Known(p), at = "payment_await", ConfirmsPayment(p), mail' \subseteq mail
    PROVE  IInv'
  <1>. Typed
    BY DEF IInv
  <1>1. claims' \subseteq Keys /\ Grows(world) /\ SaysMore(said)
    BY TypedKeys, GrowsSame, SaysMoreSame DEF ConfirmsPayment
  <1>2. PICK r : r = {}
    OBVIOUS
  <1>3. r \subseteq Reasons
    BY <1>2
  <1>4. PICK base : base = [st EXCEPT !.paid = TRUE]
    OBVIOUS
  <1>5. FeeState(base) /\ base.paid = TRUE
    BY <1>4, FeeStates DEF JourneyStatuses
  <1>6. RoutePayment(base) = "lender_status_poll"
    BY <1>5 DEF RoutePayment
  <1>7. CASE st.confirmed_sent /\ Then(p, "lender_status_poll", base, world, r, said, 0, {})
    <2>1. CASE RunsTo("lender_status_poll", base, world, r, said, 0) /\ files' = files \cup {}
      BY <1>1, <1>3, <1>5, <2>1, FeeRunsKeeps
    <2>2. CASE Raises(p, world, r, said, 0) /\ UNCHANGED files
      BY <1>1, <1>3, <2>2, BrokenKeeps
    <2>. QED BY <1>7, <2>1, <2>2 DEF Then
  <1>8. ASSUME NEW f \in ProgressFaults(7), ~st.confirmed_sent,
               Then(p, "lender_status_poll", [base EXCEPT !.confirmed_sent = TRUE],
                    Progressed(world, 7, f), r, Says("confirmed"), f, {})
        PROVE  IInv'
    <2>1. f \in {0, 1}
      BY <1>8 DEF ProgressFaults
    <2>2. PICK new : new = [base EXCEPT !.confirmed_sent = TRUE]
      OBVIOUS
    <2>3. /\ FundingFields(new) /\ new.paid = TRUE /\ new.confirmed_sent = TRUE
          /\ new.offer_confirmed_sent = st.offer_confirmed_sent
          /\ new.preview = st.preview /\ new.reg_offers = st.reg_offers /\ new.offers = st.offers
      BY <1>5, <2>2 DEF FeeState, FundingFields, SameNotes, StTyped, NewState
    <2>4. PICK v : v = Progressed(world, 7, f)
      OBVIOUS
    <2>5. Grows(v) /\ v.step \in {world.step, 7}
      BY <1>1, <2>4, ProgressedGrows
    <2>6. PICK d : d = Says("confirmed")
      OBVIOUS
    <2>7. SaysMore(d) /\ d.confirmed <= said.confirmed + 1 /\ d.prompt = said.prompt
          /\ d.complete = said.complete /\ d.offer_confirmed = said.offer_confirmed
          /\ d.activated = said.activated /\ d.preview = said.preview
      BY <2>6, SaysFields
    <2>8. Rank("payment_await") = 6 /\ Rank("lender_status_poll") = 7
      BY DEF Rank, Entry, Contacting, Consenting, Reporting, Expecting, Looping, Billing
    <2>9. CASE Raises(p, v, r, d, f) /\ UNCHANGED files
      <3>1. Reports(7)
        BY <2>8 DEF Reports
      <3>. QED BY <1>1, <1>3, <2>1, <2>5, <2>7, <2>9, <3>1, BrokenTracks
    <2>10. CASE RunsTo("lender_status_poll", new, v, r, d, f) /\ files' = files \cup {}
      <3>1. FundingMove("lender_status_poll", new)
        BY <2>3, <2>8 DEF FundingMove
      <3>2. /\ Typed' /\ MailIInv' /\ FilesIInv' /\ PaidIInv'
            /\ at' = "lender_status_poll" /\ st' = new /\ world' = v /\ said' = d
            /\ faults' = faults + f /\ FaultsUp /\ faults \in Nat /\ faults' \in Nat
        BY <1>1, <1>3, <2>1, <2>3, <2>5, <2>7, <2>10, <3>1, FundingRuns
      <3>3. StepsIInv'
        BY <2>3, <2>8, <3>2, RankOf DEF StepsIInv
      <3>4. ShownIInv'
        BY <2>3, <2>5, <2>7, <2>8, <3>2, CalmShownKeeps DEF CalmShown, IInv, Grows, WorldTyped
      <3>5. SaidIInv'
        <4>1. ~st.confirmed_sent /\ said.confirmed <= faults + Once(st.confirmed_sent)
          BY <1>8 DEF IInv, SaidIInv
        <4>2. /\ said.complete \in Nat /\ said.prompt \in Nat /\ said.confirmed \in Nat
              /\ said.offer_confirmed \in Nat /\ said.activated \in Nat /\ d.confirmed \in Nat
              /\ faults <= faults'
          BY <2>7, <3>2 DEF Typed, SaidTyped, SaysMore, FaultsUp
        <4>3. (said.confirmed <= faults + Once(st.confirmed_sent))'
          BY <2>3, <2>7, <3>2, <4>1, <4>2 DEF Once
        <4>4. Cardinality(Docs) \in Nat /\ Cardinality(st.prompt_sig) \in Nat
          BY DocsAssumption, FS_CardinalityType, FS_Subset DEF Typed, StTyped
        <4>5. Once(st.complete_sent) \in Nat /\ Once(st.offer_confirmed_sent) \in Nat
          BY DEF Once
        <4>6. /\ (said.complete <= faults + Once(st.complete_sent))'
              /\ (said.offer_confirmed <= faults + Once(st.offer_confirmed_sent))'
          BY <2>3, <2>7, <3>2, <4>2, <4>5 DEF FundingFields, IInv, SaidIInv
        <4>7. /\ (st.prompt_sig = {} => said.prompt <= faults)'
              /\ (st.prompt_sig # {} => st.missing \subseteq st.prompt_sig)'
              /\ (st.prompt_sig # {} => said.prompt + Cardinality(st.prompt_sig) <= faults + Cardinality(Docs) + 1)'
          BY <2>3, <2>7, <3>2, <4>2, <4>4 DEF FundingFields, IInv, SaidIInv
        <4>8. /\ (said.activated > 0 => said.offer_confirmed > 0 \/ faults > 0)'
              /\ (st.offer_confirmed_sent /\ MaxSaid > 0 => said.offer_confirmed > 0)'
              /\ (said.unasked = 0)'
          BY <2>3, <2>7, <3>2, <4>2 DEF SaysMore, IInv, SaidIInv
        <4>. QED BY <2>8, <3>2, <4>3, <4>6, <4>7, <4>8 DEF SaidIInv
      <3>. QED BY <3>2, <3>3, <3>4, <3>5 DEF IInv
    <2>11. Then(p, "lender_status_poll", new, v, r, d, f, {})
      BY <1>8, <2>2, <2>4, <2>6
    <2>. QED BY <2>9, <2>10, <2>11 DEF Then
  <1>. QED BY <1>2, <1>4, <1>6, <1>7, <1>8 DEF ConfirmsPayment

\* The backend waived the fee, and a message or an event of payment_await finds it out.
LEMMA FeeWaivedKeeps ==
    ASSUME IInv, NEW p \in {"ask"} \cup Synthetic, at = "payment_await", FeeWaived(p), mail' \subseteq mail
    PROVE  IInv'
  <1>. Typed
    BY DEF IInv
  <1>1. p = "waived" \/ StatusIn(p) \in JourneyStatuses
    BY DEF FeeWaived, Settled, JourneyStatuses, QualifiedPlus
  <1>2. PICK new : new = [st EXCEPT !.paid = TRUE, !.source = "webhook",
                                    !.status = IF p = "waived" THEN @ ELSE StatusIn(p)]
    OBVIOUS
  <1>3. FeeState(new) /\ new.paid = TRUE
    <2>1. PICK s \in JourneyStatuses \cup {"NONE"} : s = IF p = "waived" THEN st.status ELSE StatusIn(p)
      BY <1>1 DEF Typed, StTyped
    <2>2. new = [st EXCEPT !.paid = TRUE, !.source = "webhook", !.status = s]
      BY <1>2, <2>1
    <2>. QED BY <2>2, FeeStates
  <1>4. RunsTo("lender_status_poll", new, world, rem, said, 0)
    BY <1>2, <1>3 DEF FeeWaived, RoutePayment
  <1>5. claims' \subseteq Keys /\ files' = files /\ rem \subseteq Reasons
    BY TypedKeys DEF FeeWaived
  <1>. QED BY <1>3, <1>4, <1>5, FeeRunsKeeps

\* The waiver check that precedes every other reading of the answer
LEMMA ChecksWaiverKeeps ==
    ASSUME IInv, NEW p, at = "payment_await", ChecksWaiver(p), mail' \subseteq mail
    PROVE  IInv'
  <1>. Typed
    BY DEF IInv
  <1>1. claims' \subseteq Keys /\ files' = files /\ rem \subseteq Reasons
    BY TypedKeys DEF ChecksWaiver
  <1>2. PICK waived : waived = [st EXCEPT !.paid = TRUE, !.source = "poll"]
    OBVIOUS
  <1>3. PICK open : open = [st EXCEPT !.paid = FALSE]
    OBVIOUS
  <1>4. FeeState(waived) /\ waived.paid = TRUE /\ FeeState(open) /\ open.paid = FALSE
    BY <1>2, <1>3, FeeStates DEF JourneyStatuses
  <1>5. \/ RunsTo("lender_status_poll", waived, world, rem, said, 0)
        \/ RunsTo("payment_await", open, world, rem, said, 0)
        \/ RunsTo("payment_await", open, world, rem, said, 1)
    BY <1>2, <1>3 DEF ChecksWaiver
  <1>. QED BY <1>1, <1>4, <1>5, FeeRunsKeeps

\* payment_await
LEMMA PaymentAwaitKeeps == ASSUME IInv, PaymentAwait PROVE IInv'
  <1>. Typed
    BY DEF IInv
  <1>1. PICK p \in {"ask"} \cup Synthetic :
        /\ Resumed("payment_await", p, {"ask"})
        /\ \/ p = "ask" /\ Answers(p, [st EXCEPT !.paid = FALSE])
           \/ p = "settle" /\ Reparks([st EXCEPT !.paid = FALSE])
           \/ ConfirmsPayment(p)
           \/ FeeWaived(p)
           \/ ChecksWaiver(p)
    BY DEF PaymentAwait
  <1>2. {"ask"} \subseteq Payloads /\ {"ask"} \cap Ticks = {}
    BY DEF Payloads, Ticks
  <1>3. at = "payment_await" /\ mail' \subseteq mail /\ Known(p)
    BY <1>1, <1>2, ResumedWith DEF IInv
  <1>4. PICK new : new = [st EXCEPT !.paid = FALSE]
    OBVIOUS
  <1>5. FeeState(new) /\ new.paid = FALSE
    BY <1>4, FeeStates DEF JourneyStatuses
  <1>6. CASE (p = "ask" /\ Answers(p, new)) \/ Reparks(new)
    <2>1. /\ RunsTo("payment_await", new, world, rem, said, 0) /\ rem \subseteq Reasons
          /\ claims' \subseteq Keys /\ files' = files
      BY <1>3, <1>6, TypedKeys DEF Answers, Reparks, Ticks
    <2>. QED BY <1>3, <1>5, <2>1, FeeRunsKeeps
  <1>. QED BY <1>1, <1>3, <1>4, <1>6, ConfirmsPaymentKeeps, FeeWaivedKeeps, ChecksWaiverKeeps

-----------------------------------------------------------------------------
(* The lenders *)

\* Where a status leads
LEMMA StatusRoutes ==
    ASSUME NEW s, NEW toPay, NEW refused, NEW idle, s.status \in JourneyStatuses \cup {"NONE"}
    PROVE  LET next == RouteJourneyStatus(s, toPay, refused, idle)
           IN  \/ next \in {refused, "not_qualified", "offers_fetch", "offer_confirmed", "activated", idle}
               \/ next = toPay /\ ~s.paid
  <1>1. CASE s.status \in {"PRE_QUALIFIED", "QUALIFIED"}
    BY <1>1 DEF RouteJourneyStatus
  <1>2. CASE s.status \in {"IN_ELIGIBLE", "UNQUALIFIED", "NOT_ACCEPTED", "ACCEPTED", "OFFER_ACCEPTED", "ACTIVATED"}
    BY <1>2 DEF RouteJourneyStatus
  <1>3. CASE s.status \notin {"PRE_QUALIFIED", "QUALIFIED", "IN_ELIGIBLE", "UNQUALIFIED", "NOT_ACCEPTED",
                             "ACCEPTED", "OFFER_ACCEPTED", "ACTIVATED"}
    BY <1>3 DEF RouteJourneyStatus
  <1>. QED BY <1>1, <1>2, <1>3

\* The nodes after the fee have the last rank.
LEMMA LenderRanks ==
    /\ \A n \in {"lender_status_poll", "lender_wait_await", "not_qualified", "status_poll_on_demand",
                 "not_eligible", "journey_wait_await", "offers_fetch", "offer_view_send",
                 "offer_handoff_to_madad", "offer_confirmed", "activated", "invoice_collect_await"} : Rank(n) = 7
    /\ Rank("business_details_fetch") = 6
  BY DEF Rank, Entry, Contacting, Consenting, Reporting, Expecting, Looping, Billing

\* Both nodes that poll the lenders' status, from the three nodes they lead to.
LEMMA PollsKeeps ==
    ASSUME IInv, NEW n, NEW toPay, NEW refused, NEW idle, Polls(n, toPay, refused, idle),
           \/ n = "lender_status_poll" /\ toPay = "lender_wait_await" /\ refused = "not_qualified"
              /\ idle = "lender_wait_await"
           \/ n = "status_poll_on_demand" /\ toPay = "business_details_fetch" /\ refused = "not_eligible"
              /\ idle = "journey_wait_await"
    PROVE  IInv'
  <1>. Typed
    BY DEF IInv
  <1>1. PICK f \in {0, 1} :
            LET new == [st EXCEPT !.status = PolledStatus(LiveToken(f)), !.token = LiveToken(f),
                                  !.source = IF @ = "none" THEN "poll" ELSE @]
            IN  Pure(n, RouteJourneyStatus(new, toPay, refused, idle), new, f)
    BY DEF Polls
  <1>2. PICK b : b = LiveToken(f)
    OBVIOUS
  <1>3. PICK s : s = PolledStatus(b)
    OBVIOUS
  <1>4. s \in JourneyStatuses \cup {"NONE"}
    BY <1>3 DEF PolledStatus, Typed, StTyped, WorldTyped
  <1>5. PICK new : new = [st EXCEPT !.status = s, !.token = b, !.source = IF @ = "none" THEN "poll" ELSE @]
    OBVIOUS
  <1>6. FeeState(new) /\ new.paid = st.paid /\ new.status = s
    BY <1>4, <1>5, FeeStates, ZenonT(40)
  <1>7. PICK next : next = RouteJourneyStatus(new, toPay, refused, idle)
    OBVIOUS
  <1>8. \/ next \in {refused, "not_qualified", "offers_fetch", "offer_confirmed", "activated", idle}
        \/ next = toPay /\ ~new.paid
    BY <1>4, <1>6, <1>7, StatusRoutes
  <1>9. Pure(n, next, new, f)
    BY <1>1, <1>2, <1>3, <1>5, <1>7
  <1>10. at = n
    BY <1>9 DEF Pure, Node, At
  <1>11. /\ Rank(n) = 7 /\ Rank(next) \in {6, 7} /\ (Rank(next) = 6 => ~new.paid)
         /\ next # "offer_view_send" /\ n # "offers_fetch"
    BY <1>8, LenderRanks
  <1>12. FundingMove(next, new) /\ FundingCalm(next, new)
    BY <1>6, <1>10, <1>11 DEF FundingMove, FundingCalm, FeeState
  <1>13. Node(n, next, new, world, rem, said, f) /\ Grows(world) /\ rem \subseteq Reasons /\ f \in Nat
    BY <1>9, GrowsSame, TypedKeys DEF Pure
  <1>. QED BY <1>6, <1>11, <1>12, <1>13, FundingNodeKeeps DEF FeeState

\* lender_status_poll and status_poll_on_demand
LEMMA StatusPollsKeep == ASSUME IInv, LenderStatusPoll \/ StatusPollOnDemand PROVE IInv'
  BY PollsKeeps DEF LenderStatusPoll, StatusPollOnDemand

\* Both waits for the lenders, from the node that polls.
LEMMA WaitsForStatusKeeps ==
    ASSUME IInv, NEW n, NEW next, WaitsForStatus(n, next),
           \/ n = "lender_wait_await" /\ next = "lender_status_poll"
           \/ n = "journey_wait_await" /\ next = "status_poll_on_demand"
    PROVE  IInv'
  <1>. Typed
    BY DEF IInv
  <1>1. PICK p \in {"ask"} \cup Synthetic :
        /\ Resumed(n, p, {"ask"})
        /\ \/ p = "ask" /\ Answers(p, [st EXCEPT !.source = "chat"])
           \/ /\ p \in Synthetic
              /\ RunsTo(next, [st EXCEPT !.source = SourceOf(p),
                                         !.status = IF p \in StatusEvents THEN StatusIn(p) ELSE @],
                        world, rem, said, 0)
              /\ UNCHANGED <<claims, files>>
    BY DEF WaitsForStatus
  <1>2. {"ask"} \subseteq Payloads /\ {"ask"} \cap Ticks = {}
    BY DEF Payloads, Ticks
  <1>3. at = n /\ mail' \subseteq mail /\ Known(p)
    BY <1>1, <1>2, ResumedWith DEF IInv
  <1>4. PICK asked : asked = [st EXCEPT !.source = "chat"]
    OBVIOUS
  <1>5. PICK s : s = IF p \in StatusEvents THEN StatusIn(p) ELSE st.status
    OBVIOUS
  <1>6. s \in JourneyStatuses \cup {"NONE"} /\ SourceOf(p) \in {"webhook", "poll"}
    BY <1>5, StatusInType, SourceOfType DEF Typed, StTyped
  <1>7. PICK polled : polled = [st EXCEPT !.source = SourceOf(p), !.status = s]
    OBVIOUS
  <1>8. FeeState(asked) /\ asked.paid = st.paid
    BY <1>4, FeeStates DEF JourneyStatuses
  <1>9. FeeState(polled) /\ polled.paid = st.paid
    <2>1. PICK c \in {"webhook", "poll"} : c = SourceOf(p)
      BY <1>6
    <2>2. polled = [st EXCEPT !.source = c, !.status = s]
      BY <1>7, <2>1
    <2>. QED BY <1>6, <2>1, <2>2 DEF Typed, StTyped, FeeState, FundingFields, SameNotes, NewState
  <1>10. \/ RunsTo(n, asked, world, rem, said, 0) /\ UNCHANGED <<claims, files>>
         \/ RunsTo(next, polled, world, rem, said, 0) /\ UNCHANGED <<claims, files>>
    <2>1. CASE p = "ask" /\ Answers(p, asked)
      BY <1>3, <2>1 DEF Answers, Ticks
    <2>2. CASE RunsTo(next, polled, world, rem, said, 0) /\ UNCHANGED <<claims, files>>
      BY <2>2
    <2>. QED BY <1>1, <1>4, <1>5, <1>7, <2>1, <2>2
  <1>11. claims' \subseteq Keys /\ files' = files /\ Grows(world) /\ rem \subseteq Reasons
    BY <1>10, TypedKeys, GrowsSame
  <1>12. Rank(n) = 7 /\ Rank(next) = 7 /\ n \notin {"offers_fetch", "offer_view_send"} /\ next # "offer_view_send"
    BY LenderRanks
  <1>13. \A new : FeeState(new) /\ new.paid = st.paid
             => FundingMove(n, new) /\ FundingCalm(n, new) /\ FundingMove(next, new) /\ FundingCalm(next, new)
    BY <1>3, <1>12 DEF FundingMove, FundingCalm, FeeState
  <1>14. CASE RunsTo(n, asked, world, rem, said, 0)
    BY <1>3, <1>8, <1>11, <1>12, <1>13, <1>14, FundingQuietKeeps DEF FeeState
  <1>15. CASE RunsTo(next, polled, world, rem, said, 0)
    BY <1>3, <1>9, <1>11, <1>12, <1>13, <1>15, FundingQuietKeeps DEF FeeState
  <1>. QED BY <1>10, <1>14, <1>15

\* lender_wait_await and journey_wait_await
LEMMA LenderWaitsKeep == ASSUME IInv, LenderWaitAwait \/ JourneyWaitAwait PROVE IInv'
  BY WaitsForStatusKeeps DEF LenderWaitAwait, JourneyWaitAwait

-----------------------------------------------------------------------------
(* The offers *)

\* The offers at hand are noted, with step 8; none is shown here.
LEMMA OffersFetchKeeps == ASSUME IInv, OffersFetch PROVE IInv'
  <1>. Typed
    BY DEF IInv
  <1>1. PICK f \in ProgressFaults(8), g \in {0, 1} :
            Node("offers_fetch", "offer_view_send",
                 Recorded([st EXCEPT !.offers = IF st.reg_offers > 0 THEN st.reg_offers
                                                ELSE IF g = 0 THEN world.offers ELSE 0], 8, f),
                 Progressed(world, 8, f), rem, said, f + g)
    BY DEF OffersFetch
  <1>2. f \in {0, 1} /\ f + g \in Nat
    BY DEF ProgressFaults
  <1>3. PICK m : m = IF st.reg_offers > 0 THEN st.reg_offers ELSE IF g = 0 THEN world.offers ELSE 0
    OBVIOUS
  <1>4. /\ st.reg_offers \in 0 .. MaxOffers /\ st.preview \in 0 .. MaxOffers + 1
        /\ world.offers \in 0 .. MaxOffers /\ st.reg_offers <= world.offers /\ MaxOffers \in Nat
    BY BoundsNat DEF Typed, StTyped, WorldTyped, IInv, ShownIInv
  <1>5. m \in 0 .. MaxOffers /\ m <= world.offers
    BY <1>3, <1>4
  <1>6. PICK base : base = [st EXCEPT !.offers = m]
    OBVIOUS
  <1>7. /\ FundingFields(base) /\ base.paid = st.paid /\ base.step = st.step /\ base.offers = m
        /\ base.confirmed_sent = st.confirmed_sent /\ base.offer_confirmed_sent = st.offer_confirmed_sent
        /\ base.preview = st.preview /\ base.reg_offers = st.reg_offers
    BY <1>5, <1>6 DEF Typed, StTyped, FundingFields, NewState
  <1>8. PICK new : new = Recorded(base, 8, f)
    OBVIOUS
  <1>9. /\ FundingFields(new) /\ new.paid = st.paid /\ new.offers = m
        /\ new.confirmed_sent = st.confirmed_sent /\ new.offer_confirmed_sent = st.offer_confirmed_sent
        /\ new.preview = st.preview /\ new.reg_offers = st.reg_offers
        /\ new.step = IF Tracks(8) /\ f = 0 THEN 8 ELSE st.step
    BY <1>7, <1>8, RecordedState DEF FundingFields
  <1>10. PICK v : v = Progressed(world, 8, f)
    OBVIOUS
  <1>11. /\ Grows(v) /\ v.step \in {world.step, 8} /\ v.offers = world.offers
         /\ (~(Tracks(8) /\ f = 0) => v = world)
    <2>1. Grows(v) /\ v.step \in {world.step, 8} /\ v.offers = world.offers
      BY <1>10, ProgressedGrows, GrowsSame
    <2>2. ~(Tracks(8) /\ f = 0) => v = world
      BY <1>10 DEF Progressed
    <2>. QED BY <2>1, <2>2
  <1>12. Node("offers_fetch", "offer_view_send", new, v, rem, said, f + g)
    BY <1>1, <1>3, <1>6, <1>8, <1>10
  <1>13. /\ at = "offers_fetch" /\ mail' \subseteq mail /\ claims' \subseteq Keys
         /\ files' = files /\ rem \subseteq Reasons /\ SaysMore(said)
    BY <1>12, TypedKeys, SaysMoreSame DEF Node, At
  <1>14. Rank("offers_fetch") = 7 /\ Rank("offer_view_send") = 7
    BY LenderRanks
  <1>15. CASE Raises(NoInput, v, rem, said, f + g)
    <2>1. CASE Tracks(8) /\ f = 0
      <3>1. Reports(8)
        BY <1>13, <1>14, <2>1 DEF Reports, Tracks
      <3>. QED BY <1>2, <1>11, <1>13, <1>15, <3>1, BrokenTracks, NoInputKnown
    <2>2. CASE ~(Tracks(8) /\ f = 0)
      BY <1>2, <1>11, <1>13, <1>15, <2>2, BrokenKeeps, NoInputKnown
    <2>. QED BY <2>1, <2>2
  <1>16. CASE RunsTo("offer_view_send", new, v, rem, said, f + g)
    <2>1. FundingMove("offer_view_send", new)
      BY <1>13, <1>14 DEF FundingMove
    <2>2. /\ Typed' /\ MailIInv' /\ FilesIInv' /\ PaidIInv'
          /\ at' = "offer_view_send" /\ st' = new /\ world' = v /\ said' = said
          /\ faults' = faults + (f + g) /\ FaultsUp /\ faults \in Nat /\ faults' \in Nat
      BY <1>2, <1>9, <1>11, <1>13, <1>16, <2>1, FundingRuns
    <2>3. SaidIInv'
      BY <1>9, <1>13, <1>14, <2>2, CalmSaidKeeps DEF CalmSaid, FundingFields, IInv
    <2>4. StepsIInv'
      <3>1. st.step \in 0 .. 8 /\ (~st.paid => world.step <= 6 \/ st.step = 8 \/ faults > 0)
        BY <1>13, <1>14, <2>2 DEF Typed, StTyped, IInv, StepsIInv
      <3>2. CASE Tracks(8) /\ f = 0
        BY <1>9, <1>14, <2>2, <3>2, RankOf DEF StepsIInv
      <3>3. CASE Tracks(8) /\ f = 1
        <4>1. world' = world /\ (faults > 0 => faults' > 1) /\ st'.step = st.step
          BY <1>2, <1>9, <1>11, <2>2, <3>3
        <4>. QED BY <1>9, <1>14, <2>2, <3>1, <4>1, RankOf DEF StepsIInv
      <3>4. CASE ~Tracks(8)
        <4>1. world' = world /\ st'.step = st.step
          BY <1>9, <1>11, <2>2, <3>4
        <4>2. world.channel # "whatsapp" \/ st.step = 8
          BY <3>1, <3>4 DEF Tracks
        <4>3. ~st.paid => world.step <= 6 \/ st.step = 8 \/ faults > 1
          BY <1>13, <1>14, <4>2 DEF IInv, StepsIInv
        <4>4. faults > 1 => faults' > 1
          BY <2>2 DEF FaultsUp
        <4>. QED BY <1>9, <1>14, <2>2, <4>1, <4>3, <4>4, RankOf DEF StepsIInv
      <3>. QED BY <1>2, <3>2, <3>3, <3>4
    <2>5. ShownIInv'
      <3>1. \A n \in 0 .. MaxOffers : said.preview[n] \in Nat /\ said.preview[n] <= faults + 1
        BY DEF Typed, SaidTyped, IInv, ShownIInv
      <3>2. faults <= faults' /\ (g = 1 => faults + 1 <= faults')
        BY <1>2, <2>2
      <3>3. \A n \in 0 .. MaxOffers : n >= world.offers /\ n # st.preview => said.preview[n] <= faults
        BY DEF IInv, ShownIInv
      <3>4. st.preview = Unseen => \A n \in 0 .. MaxOffers : said.preview[n] <= faults
        BY DEF IInv, ShownIInv
      <3>5. /\ st.reg_offers > 0 => st.preview \in {st.reg_offers, Unseen}
            /\ st.preview # Unseen => st.preview <= world.offers
        BY DEF IInv, ShownIInv
      <3>6. /\ st'.offers = m /\ st'.preview = st.preview /\ st'.reg_offers = st.reg_offers
            /\ world'.offers = world.offers /\ said' = said
        BY <1>9, <1>11, <2>2
      <3>7. (st.offers # st.preview => said.preview[st.offers] <= faults)'
        <4>1. ASSUME m # st.preview PROVE said.preview[m] <= faults'
          <5>1. CASE st.reg_offers > 0
            <6>1. said.preview[m] <= faults
              BY <1>3, <1>5, <3>4, <3>5, <4>1, <5>1
            <6>. QED BY <1>5, <2>2, <3>1, <3>2, <6>1
          <5>2. CASE ~(st.reg_offers > 0) /\ g = 0
            <6>1. m = world.offers /\ m >= world.offers
              BY <1>3, <1>4, <5>2
            <6>2. said.preview[m] <= faults
              BY <1>5, <3>3, <4>1, <6>1
            <6>. QED BY <1>5, <2>2, <3>1, <3>2, <6>2
          <5>3. CASE g = 1
            BY <1>5, <2>2, <3>1, <3>2, <5>3
          <5>. QED BY <5>1, <5>2, <5>3
        <4>. QED BY <3>6, <4>1
      <3>8. (st.offers < st.preview => \A n \in 0 .. MaxOffers : said.preview[n] <= faults)'
        <4>1. ASSUME m < st.preview, NEW n \in 0 .. MaxOffers PROVE said.preview[n] <= faults'
          <5>1. CASE st.preview = Unseen
            BY <2>2, <3>1, <3>2, <3>4, <5>1
          <5>2. CASE g = 1
            BY <2>2, <3>1, <3>2, <5>2
          <5>3. CASE st.preview # Unseen /\ g = 0
            BY <1>3, <1>4, <3>5, <4>1, <5>3
          <5>. QED BY <5>1, <5>2, <5>3
        <4>. QED BY <3>6, <4>1
      <3>9. (st.reg_offers > 0 => st.offers = st.reg_offers)'
        BY <1>3, <3>6
      <3>10. /\ (\A n \in 0 .. MaxOffers : said.preview[n] <= faults + 1)'
             /\ (\A n \in 0 .. MaxOffers : n >= world.offers /\ n # st.preview => said.preview[n] <= faults)'
             /\ (st.preview = Unseen => \A n \in 0 .. MaxOffers : said.preview[n] <= faults)'
        BY <2>2, <3>1, <3>2, <3>3, <3>4, <3>6 DEF Unseen
      <3>11. /\ (st.reg_offers > 0 => st.preview \in {st.reg_offers, Unseen})'
             /\ (st.preview # Unseen => st.preview <= world.offers)'
             /\ (st.offers <= world.offers /\ st.reg_offers <= world.offers)'
        BY <1>4, <1>5, <3>5, <3>6 DEF Unseen
      <3>. QED BY <1>14, <2>2, <3>7, <3>8, <3>9, <3>10, <3>11 DEF ShownIInv
    <2>. QED BY <2>2, <2>3, <2>4, <2>5 DEF IInv
  <1>. QED BY <1>12, <1>15, <1>16 DEF Node

\* The cards of one set of offers
PreviewShown == [said EXCEPT !.preview[st.offers] = Capped(@)]

\* A preview counts for the number of offers it shows, and for nothing else.
LEMMA PreviewFields ==
    ASSUME Typed
    PROVE  /\ SaysMore(PreviewShown)
           /\ \A n \in 0 .. MaxOffers : n # st.offers => PreviewShown.preview[n] = said.preview[n]
           /\ PreviewShown.prompt = said.prompt /\ PreviewShown.complete = said.complete
           /\ PreviewShown.confirmed = said.confirmed /\ PreviewShown.offer_confirmed = said.offer_confirmed
           /\ PreviewShown.activated = said.activated
  <1>1. /\ said.prompt \in Nat /\ said.complete \in Nat /\ said.confirmed \in Nat
        /\ said.offer_confirmed \in Nat /\ said.activated \in Nat /\ said.unasked \in Nat
        /\ DOMAIN said = DOMAIN Nothing /\ DOMAIN said.preview = 0 .. MaxOffers
        /\ \A n \in 0 .. MaxOffers : said.preview[n] \in Nat
    BY DEF Typed, SaidTyped
  <1>2. \A k \in Nat : Capped(k) \in Nat /\ k <= Capped(k) /\ Capped(k) <= k + 1
    BY BoundsNat DEF Capped
  <1>3. PICK d : d = PreviewShown
    OBVIOUS
  <1>4. /\ DOMAIN d = DOMAIN Nothing
        /\ d.prompt = said.prompt /\ d.complete = said.complete /\ d.confirmed = said.confirmed
        /\ d.offer_confirmed = said.offer_confirmed /\ d.activated = said.activated
        /\ d.unasked = said.unasked
        /\ d.preview = [said.preview EXCEPT ![st.offers] = Capped(@)]
    BY <1>1, <1>3 DEF PreviewShown, Nothing
  <1>5. st.offers \in 0 .. MaxOffers
    BY DEF Typed, StTyped
  <1>6. \A n \in 0 .. MaxOffers :
            d.preview[n] = IF n = st.offers THEN Capped(said.preview[n]) ELSE said.preview[n]
    BY <1>1, <1>4, <1>5
  <1>7. DOMAIN d.preview = 0 .. MaxOffers
    BY <1>1, <1>4
  <1>8. \A n \in 0 .. MaxOffers :
            d.preview[n] \in Nat /\ said.preview[n] <= d.preview[n] /\ d.preview[n] <= said.preview[n] + 1
    <2>1. ASSUME NEW n \in 0 .. MaxOffers
          PROVE  /\ d.preview[n] \in Nat
                 /\ said.preview[n] <= d.preview[n] /\ d.preview[n] <= said.preview[n] + 1
      <3>1. said.preview[n] \in Nat
        BY <1>1
      <3>2. CASE n = st.offers
        <4>1. d.preview[n] = Capped(said.preview[n])
          BY <1>6, <3>2
        <4>. QED BY <1>2, <3>1, <4>1
      <3>3. CASE n # st.offers
        <4>1. d.preview[n] = said.preview[n]
          BY <1>6, <3>3
        <4>. QED BY <3>1, <4>1
      <3>. QED BY <3>2, <3>3
    <2>. QED BY <2>1
  <1>9. SaysMore(d)
    BY <1>1, <1>4, <1>7, <1>8 DEF SaysMore, SaidTyped
  <1>. QED BY <1>3, <1>4, <1>6, <1>9

\* The edges of the offer nodes that are calm
LEMMA OfferMoves ==
    /\ CalmMove("offer_view_send", "offer_handoff_to_madad")
    /\ CalmMove("offer_handoff_to_madad", "journey_wait_await")
    /\ CalmMove("offer_confirmed", "journey_wait_await")
    /\ CalmMove("activated", "invoice_collect_await")
  BY DEF CalmMove, Rank, Entry, Contacting, Consenting, Reporting, Expecting, Looping, Billing, Uploading

\* A set is shown when it differs from the one shown last.
LEMMA PreviewKeeps ==
    ASSUME IInv, st.offers # st.preview,
           Node("offer_view_send", "offer_handoff_to_madad", [st EXCEPT !.preview = st.offers], world, rem,
                PreviewShown, 0)
    PROVE  IInv'
  <1>. Typed
    BY DEF IInv
  <1>1. PICK d : d = PreviewShown
    OBVIOUS
  <1>2. /\ SaysMore(d)
        /\ \A n \in 0 .. MaxOffers : n # st.offers => d.preview[n] = said.preview[n]
        /\ d.prompt = said.prompt /\ d.complete = said.complete /\ d.confirmed = said.confirmed
        /\ d.offer_confirmed = said.offer_confirmed /\ d.activated = said.activated
    BY <1>1, PreviewFields
  <1>3. PICK new : new = [st EXCEPT !.preview = st.offers]
    OBVIOUS
  <1>4. /\ st.offers \in 0 .. MaxOffers /\ st.preview \in 0 .. MaxOffers + 1 /\ st.reg_offers \in 0 .. MaxOffers
        /\ world.offers \in 0 .. MaxOffers /\ MaxOffers \in Nat
    BY BoundsNat DEF Typed, StTyped, WorldTyped
  <1>5. /\ FundingFields(new) /\ new.paid = st.paid /\ new.step = st.step /\ new.preview = st.offers
        /\ new.confirmed_sent = st.confirmed_sent /\ new.offer_confirmed_sent = st.offer_confirmed_sent
        /\ new.offers = st.offers /\ new.reg_offers = st.reg_offers
    BY <1>3, <1>4 DEF Typed, StTyped, FundingFields, NewState
  <1>6. Node("offer_view_send", "offer_handoff_to_madad", new, world, rem, d, 0)
    BY <1>1, <1>3
  <1>7. /\ at = "offer_view_send" /\ mail' \subseteq mail /\ claims' \subseteq Keys
        /\ files' = files /\ rem \subseteq Reasons /\ Grows(world)
    BY <1>6, TypedKeys, GrowsSame DEF Node, At
  <1>8. Rank("offer_view_send") = 7 /\ Rank("offer_handoff_to_madad") = 7
    BY LenderRanks
  <1>9. CASE Raises(NoInput, world, rem, d, 0)
    BY <1>2, <1>7, <1>9, BrokenKeeps, NoInputKnown
  <1>10. CASE RunsTo("offer_handoff_to_madad", new, world, rem, d, 0)
    <2>1. FundingMove("offer_handoff_to_madad", new)
      BY <1>7, <1>8 DEF FundingMove
    <2>2. /\ Typed' /\ MailIInv' /\ FilesIInv' /\ PaidIInv'
          /\ at' = "offer_handoff_to_madad" /\ st' = new /\ world' = world /\ said' = d
          /\ faults' = faults + 0 /\ FaultsUp /\ faults \in Nat /\ faults' \in Nat
      BY <1>2, <1>5, <1>7, <1>10, <2>1, FundingRuns
    <2>3. SaidIInv'
      BY <1>2, <1>5, <1>8, <2>2, CalmSaidKeeps DEF CalmSaid, FundingFields, SaysMore, IInv
    <2>4. StepsIInv'
      BY <1>5, <1>7, <1>8, <2>2, CalmStepsKeeps DEF CalmSteps, IInv
    <2>5. ShownIInv'
      <3>1. \A n \in 0 .. MaxOffers :
                said.preview[n] \in Nat /\ d.preview[n] \in Nat /\ d.preview[n] <= said.preview[n] + 1
        BY <1>2 DEF Typed, SaidTyped, SaysMore
      <3>2. /\ \A n \in 0 .. MaxOffers : said.preview[n] <= faults + 1
            /\ \A n \in 0 .. MaxOffers : n >= world.offers /\ n # st.preview => said.preview[n] <= faults
            /\ said.preview[st.offers] <= faults
            /\ st.offers < st.preview => \A n \in 0 .. MaxOffers : said.preview[n] <= faults
            /\ st.preview # Unseen => st.preview <= world.offers
            /\ st.offers <= world.offers /\ st.reg_offers <= world.offers
            /\ st.reg_offers > 0 => st.offers = st.reg_offers
        BY <1>7 DEF IInv, ShownIInv
      <3>3. \A n \in 0 .. MaxOffers : d.preview[n] <= faults + 1
        BY <1>2, <1>4, <2>2, <3>1, <3>2
      <3>4. ASSUME NEW n \in 0 .. MaxOffers, n >= world.offers, n # st.offers PROVE d.preview[n] <= faults
        <4>1. d.preview[n] = said.preview[n]
          BY <1>2, <3>4
        <4>2. CASE n # st.preview
          BY <3>2, <3>4, <4>1, <4>2
        <4>3. CASE n = st.preview
          <5>1. st.preview # Unseen
            BY <1>4, <4>3 DEF Unseen
          <5>2. st.offers < st.preview
            BY <1>4, <3>2, <3>4, <4>3, <5>1
          <5>. QED BY <3>2, <4>1, <5>2
        <4>. QED BY <4>2, <4>3
      <3>5. st.offers # Unseen
        BY <1>4 DEF Unseen
      <3>6. faults' = faults
        BY <2>2
      <3>7. /\ st'.preview = st.offers /\ st'.offers = st.offers /\ st'.reg_offers = st.reg_offers
            /\ world' = world /\ said' = d
        BY <1>5, <2>2
      <3>. QED BY <1>8, <2>2, <3>2, <3>3, <3>4, <3>5, <3>6, <3>7 DEF ShownIInv, Unseen
    <2>. QED BY <2>2, <2>3, <2>4, <2>5 DEF IInv
  <1>. QED BY <1>6, <1>9, <1>10 DEF Node

\* offer_view_send: the offers shown are remembered by their number.
LEMMA OfferViewSendKeeps == ASSUME IInv, OfferViewSend PROVE IInv'
  <1>. Typed
    BY DEF IInv
  <1>1. CalmState(st) /\ rem \subseteq Reasons /\ claims \subseteq Keys
    BY CalmStateSame, TypedKeys
  <1>2. CASE Pure("offer_view_send", "offer_handoff_to_madad", st, 0)
    BY <1>1, <1>2, PureKeeps, OfferMoves
  <1>3. PICK w : w = [world EXCEPT !.window = "open"]
    OBVIOUS
  <1>4. Grows(w) /\ w.step = world.step
    BY <1>3, GrowsSame DEF Grows, WorldTyped, NewLead
  <1>5. ASSUME At("offer_view_send"), RunsTo("offer_handoff_to_madad", st, w, rem, said, 0),
               UNCHANGED <<mail, claims, files>>
        PROVE  IInv'
    <2>1. at = "offer_view_send" /\ mail' \subseteq mail /\ claims' \subseteq Keys /\ files' = files
      BY <1>1, <1>5 DEF At
    <2>. QED BY <1>1, <1>4, <1>5, <2>1, CalmRunsKeeps, OfferMoves
  <1>. QED BY <1>2, <1>3, <1>5, PreviewKeeps DEF OfferViewSend, PreviewShown

\* offer_handoff_to_madad
LEMMA OfferHandoffKeeps == ASSUME IInv, OfferHandoffToMadad PROVE IInv'
  BY CalmStateSame, PureKeeps, OfferMoves DEF OfferHandoffToMadad, IInv

-----------------------------------------------------------------------------
(* Confirmation and activation *)

\* A node that announces one or the other, and is done with it
LEMMA AnnouncesKeeps ==
    ASSUME IInv, NEW n \in {"offer_confirmed", "activated"}, at = n,
           NEW next \in {"journey_wait_await", "invoice_collect_await"},
           NEW new, NEW d, NEW f \in Nat, RunsTo(next, new, world, rem, d, f), UNCHANGED <<mail, claims, files>>,
           FundingFields(new), new.paid = st.paid, new.step = st.step, new.confirmed_sent = st.confirmed_sent,
           new.preview = st.preview, new.reg_offers = st.reg_offers, new.offers = st.offers,
           SaysMore(d), d.prompt = said.prompt, d.complete = said.complete, d.confirmed = said.confirmed,
           d.preview = said.preview,
           d.offer_confirmed <= faults + f + Once(new.offer_confirmed_sent),
           d.activated > 0 => d.offer_confirmed > 0 \/ faults + f > 0,
           new.offer_confirmed_sent /\ MaxSaid > 0 => d.offer_confirmed > 0
    PROVE  IInv'
  <1>. Typed
    BY DEF IInv
  <1>1. Rank(n) = 7 /\ Rank(next) = 7 /\ n # "offers_fetch" /\ next # "offer_view_send"
    BY LenderRanks
  <1>2. /\ mail' \subseteq mail /\ claims' \subseteq Keys /\ files' = files /\ rem \subseteq Reasons
        /\ Grows(world)
    BY TypedKeys, GrowsSame
  <1>3. FundingMove(next, new)
    BY <1>1 DEF FundingMove
  <1>4. /\ Typed' /\ MailIInv' /\ FilesIInv' /\ PaidIInv'
        /\ at' = next /\ st' = new /\ world' = world /\ said' = d
        /\ faults' = faults + f /\ FaultsUp /\ faults \in Nat /\ faults' \in Nat
    BY <1>2, <1>3, FundingRuns
  <1>5. StepsIInv'
    BY <1>1, <1>4, CalmStepsKeeps DEF CalmSteps, IInv
  <1>6. world.offers \in 0 .. MaxOffers /\ world.offers <= world.offers
    BY BoundsNat DEF Typed, WorldTyped
  <1>7. ShownIInv'
    BY <1>1, <1>4, <1>6, CalmShownKeeps DEF CalmShown, IInv
  <1>8. SaidIInv'
    <2>1. /\ said.complete \in Nat /\ said.prompt \in Nat /\ said.confirmed \in Nat /\ faults <= faults'
      BY <1>4 DEF Typed, SaidTyped, FaultsUp
    <2>2. Cardinality(Docs) \in Nat /\ Cardinality(st.prompt_sig) \in Nat
      BY DocsAssumption, FS_CardinalityType, FS_Subset DEF Typed, StTyped
    <2>3. Once(st.complete_sent) \in Nat /\ Once(st.confirmed_sent) \in Nat
      BY DEF Once
    <2>4. /\ (said.complete <= faults + Once(st.complete_sent))'
          /\ (said.confirmed <= faults + Once(st.confirmed_sent))'
      BY <1>4, <2>1, <2>3 DEF FundingFields, IInv, SaidIInv
    <2>5. /\ (said.offer_confirmed <= faults + Once(st.offer_confirmed_sent))'
          /\ (said.activated > 0 => said.offer_confirmed > 0 \/ faults > 0)'
          /\ (st.offer_confirmed_sent /\ MaxSaid > 0 => said.offer_confirmed > 0)'
      BY <1>4
    <2>6. (said.unasked = 0)'
      BY <1>4 DEF SaysMore, IInv, SaidIInv
    <2>7. /\ (st.prompt_sig = {} => said.prompt <= faults)'
          /\ (st.prompt_sig # {} => st.missing \subseteq st.prompt_sig)'
          /\ (st.prompt_sig # {} => said.prompt + Cardinality(st.prompt_sig) <= faults + Cardinality(Docs) + 1)'
      BY <1>4, <2>1, <2>2 DEF FundingFields, IInv, SaidIInv
    <2>. QED BY <1>1, <1>4, <2>4, <2>5, <2>6, <2>7 DEF SaidIInv
  <1>. QED BY <1>4, <1>5, <1>7, <1>8 DEF IInv

\* What offer_confirmed writes into the state
LEMMA ConfirmedFields ==
    ASSUME Typed
    PROVE  LET new == [st EXCEPT !.offer_confirmed_sent = TRUE]
           IN  /\ FundingFields(new) /\ new.paid = st.paid /\ new.step = st.step
               /\ new.confirmed_sent = st.confirmed_sent
               /\ new.preview = st.preview /\ new.reg_offers = st.reg_offers /\ new.offers = st.offers
               /\ new.offer_confirmed_sent = TRUE
  BY DEF Typed, StTyped, FundingFields, NewState

\* offer_confirmed
LEMMA OfferConfirmedKeeps == ASSUME IInv, OfferConfirmed PROVE IInv'
  <1>. Typed
    BY DEF IInv
  <1>1. CASE Pure("offer_confirmed", "journey_wait_await", st, 0)
    BY <1>1, CalmStateSame, PureKeeps, OfferMoves
  <1>2. PICK new : new = [st EXCEPT !.offer_confirmed_sent = TRUE]
    OBVIOUS
  <1>3. PICK d : d = Says("offer_confirmed")
    OBVIOUS
  <1>4. ASSUME ~st.offer_confirmed_sent, Node("offer_confirmed", "journey_wait_await", new, world, rem, d, 0)
        PROVE  IInv'
    <2>1. /\ at = "offer_confirmed" /\ UNCHANGED <<mail, claims, files>>
          /\ claims' \subseteq Keys /\ rem \subseteq Reasons /\ Grows(world)
      BY <1>4, TypedKeys, GrowsSame DEF Node, At
    <2>2. SaysMore(d) /\ d.offer_confirmed <= said.offer_confirmed + 1 /\ d.prompt = said.prompt
          /\ d.complete = said.complete /\ d.confirmed = said.confirmed
          /\ d.activated = said.activated /\ d.preview = said.preview
          /\ (MaxSaid > 0 => d.offer_confirmed > 0)
      BY <1>3, SaysFields
    <2>3. CASE Raises(NoInput, world, rem, d, 0)
      BY <2>1, <2>2, <2>3, BrokenKeeps, NoInputKnown
    <2>4. CASE RunsTo("journey_wait_await", new, world, rem, d, 0)
      <3>1. /\ said.offer_confirmed \in Nat /\ d.offer_confirmed \in Nat /\ faults \in Nat
            /\ said.offer_confirmed <= d.offer_confirmed
        BY <2>2, BoundsNat DEF Typed, SaidTyped, SaysMore
      <3>2. said.offer_confirmed <= faults + Once(st.offer_confirmed_sent)
        BY DEF IInv, SaidIInv
      <3>3. d.offer_confirmed <= faults + 0 + Once(TRUE)
        BY <1>4, <2>2, <3>1, <3>2 DEF Once
      <3>4. d.activated > 0 => d.offer_confirmed > 0 \/ faults + 0 > 0
        BY <2>2, <3>1 DEF IInv, SaidIInv
      <3>. QED BY <1>2, <2>1, <2>2, <2>4, <3>3, <3>4, ConfirmedFields, AnnouncesKeeps
    <2>. QED BY <1>4, <2>3, <2>4 DEF Node
  <1>. QED BY <1>1, <1>2, <1>3, <1>4 DEF OfferConfirmed

\* Both announcements at once
LEMMA SaysTwoFields ==
    ASSUME Typed
    PROVE  LET d == SaysTwo("offer_confirmed", "activated")
           IN  /\ SaysMore(d) /\ d.offer_confirmed <= said.offer_confirmed + 1
               /\ d.prompt = said.prompt /\ d.complete = said.complete /\ d.confirmed = said.confirmed
               /\ d.preview = said.preview /\ d.activated = Capped(said.activated)
               /\ (MaxSaid > 0 => d.offer_confirmed > 0)
  <1>1. /\ said.prompt \in Nat /\ said.complete \in Nat /\ said.confirmed \in Nat
        /\ said.offer_confirmed \in Nat /\ said.activated \in Nat /\ said.unasked \in Nat
        /\ \A n \in 0 .. MaxOffers : said.preview[n] \in Nat
    BY DEF Typed, SaidTyped
  <1>2. \A k \in Nat : Capped(k) \in Nat /\ k <= Capped(k) /\ Capped(k) <= k + 1 /\ (MaxSaid > 0 => Capped(k) > 0)
    BY BoundsNat DEF Capped
  <1>3. PICK d : d = SaysTwo("offer_confirmed", "activated")
    OBVIOUS
  <1>4. /\ DOMAIN d = DOMAIN Nothing
        /\ d.prompt = said.prompt /\ d.complete = said.complete /\ d.confirmed = said.confirmed
        /\ d.offer_confirmed = Capped(said.offer_confirmed) /\ d.activated = Capped(said.activated)
        /\ d.unasked = said.unasked /\ d.preview = said.preview
    BY <1>3 DEF SaysTwo, Typed, SaidTyped, Nothing
  <1>5. SaidTyped(d)
    BY <1>1, <1>2, <1>4 DEF Typed, SaidTyped
  <1>6. SaysMore(d)
    BY <1>1, <1>2, <1>4, <1>5 DEF SaysMore
  <1>. QED BY <1>1, <1>2, <1>3, <1>4, <1>6

\* The activation counts for nothing when no message is told apart.
LEMMA ActivatedCounts == Capped(said.activated) > 0 /\ said.activated \in Nat => MaxSaid > 0 \/ said.activated > 0
  BY BoundsNat DEF Capped

\* activated
LEMMA ActivatedKeeps == ASSUME IInv, Activated PROVE IInv'
  <1>. Typed
    BY DEF IInv
  <1>1. PICK d : d = Says("activated")
    OBVIOUS
  <1>2. PICK e : e = SaysTwo("offer_confirmed", "activated")
    OBVIOUS
  <1>3. PICK c : c = Says("offer_confirmed")
    OBVIOUS
  <1>4. PICK new : new = [st EXCEPT !.offer_confirmed_sent = TRUE]
    OBVIOUS
  <1>5. SaysMore(d) /\ d.activated = Capped(said.activated) /\ d.prompt = said.prompt
        /\ d.complete = said.complete /\ d.confirmed = said.confirmed
        /\ d.offer_confirmed = said.offer_confirmed /\ d.preview = said.preview
    BY <1>1, SaysFields
  <1>6. /\ SaysMore(e) /\ e.offer_confirmed <= said.offer_confirmed + 1
        /\ e.prompt = said.prompt /\ e.complete = said.complete /\ e.confirmed = said.confirmed
        /\ e.preview = said.preview /\ e.activated = Capped(said.activated)
        /\ (MaxSaid > 0 => e.offer_confirmed > 0)
    BY <1>2, SaysTwoFields
  <1>7. SaysMore(c)
    BY <1>3, SaysFields
  <1>8. /\ said.offer_confirmed \in Nat /\ said.activated \in Nat /\ faults \in Nat
        /\ e.offer_confirmed \in Nat /\ said.offer_confirmed <= e.offer_confirmed
    BY <1>6, BoundsNat DEF Typed, SaidTyped, SaysMore
  <1>9. /\ said.offer_confirmed <= faults + Once(st.offer_confirmed_sent)
        /\ said.activated > 0 => said.offer_confirmed > 0 \/ faults > 0
        /\ st.offer_confirmed_sent /\ MaxSaid > 0 => said.offer_confirmed > 0
    BY DEF IInv, SaidIInv
  <1>10. claims \subseteq Keys /\ rem \subseteq Reasons /\ Grows(world) /\ FundingFields(st)
    BY TypedKeys, GrowsSame, FundingSame
  <1>11. ASSUME Node("activated", "invoice_collect_await", st, world, rem, d, 0), st.offer_confirmed_sent
         PROVE  IInv'
    <2>1. at = "activated" /\ UNCHANGED <<mail, claims, files>> /\ claims' \subseteq Keys
      BY <1>10, <1>11 DEF Node, At
    <2>2. CASE Raises(NoInput, world, rem, d, 0)
      BY <1>5, <1>10, <2>1, <2>2, BrokenKeeps, NoInputKnown
    <2>3. CASE RunsTo("invoice_collect_await", st, world, rem, d, 0)
      <3>1. d.offer_confirmed <= faults + 0 + Once(st.offer_confirmed_sent)
        BY <1>5, <1>8, <1>9 DEF Once
      <3>2. d.activated > 0 => d.offer_confirmed > 0 \/ faults + 0 > 0
        BY <1>5, <1>8, <1>9, <1>11, ActivatedCounts
      <3>. QED BY <1>5, <1>9, <1>10, <2>1, <2>3, <3>1, <3>2, AnnouncesKeeps
    <2>. QED BY <1>11, <2>2, <2>3 DEF Node
  <1>12. ASSUME Node("activated", "invoice_collect_await", new, world, rem, e, 0), ~st.offer_confirmed_sent
         PROVE  IInv'
    <2>1. at = "activated" /\ UNCHANGED <<mail, claims, files>> /\ claims' \subseteq Keys
      BY <1>10, <1>12 DEF Node, At
    <2>2. CASE Raises(NoInput, world, rem, e, 0)
      BY <1>6, <1>10, <2>1, <2>2, BrokenKeeps, NoInputKnown
    <2>3. CASE RunsTo("invoice_collect_await", new, world, rem, e, 0)
      <3>1. e.offer_confirmed <= faults + 0 + Once(TRUE)
        BY <1>6, <1>8, <1>9, <1>12 DEF Once
      <3>2. e.activated > 0 => e.offer_confirmed > 0 \/ faults + 0 > 0
        BY <1>6, <1>8, <1>9, ActivatedCounts
      <3>. QED BY <1>4, <1>6, <1>10, <2>1, <2>3, <3>1, <3>2, ConfirmedFields, AnnouncesKeeps
    <2>. QED BY <1>12, <2>2, <2>3 DEF Node
  <1>13. ASSUME Node("activated", "invoice_collect_await", st, world, rem, d, 1), ~st.offer_confirmed_sent
         PROVE  IInv'
    <2>1. at = "activated" /\ UNCHANGED <<mail, claims, files>> /\ claims' \subseteq Keys
      BY <1>10, <1>13 DEF Node, At
    <2>2. CASE Raises(NoInput, world, rem, d, 1)
      BY <1>5, <1>10, <2>1, <2>2, BrokenKeeps, NoInputKnown
    <2>3. CASE RunsTo("invoice_collect_await", st, world, rem, d, 1)
      <3>1. d.offer_confirmed <= faults + 1 + Once(st.offer_confirmed_sent)
        BY <1>5, <1>8, <1>9 DEF Once
      <3>2. faults + 1 > 0
        BY <1>8
      <3>. QED BY <1>5, <1>9, <1>10, <2>1, <2>3, <3>1, <3>2, AnnouncesKeeps
    <2>. QED BY <1>13, <2>2, <2>3 DEF Node
  <1>14. ASSUME At("activated"), Raises(NoInput, world, rem, c, 0), UNCHANGED <<mail, claims, files>>
         PROVE  IInv'
    BY <1>7, <1>10, <1>14, BrokenKeeps, NoInputKnown
  <1>. QED BY <1>1, <1>2, <1>3, <1>4, <1>11, <1>12, <1>13, <1>14 DEF Activated

-----------------------------------------------------------------------------
(* What happens around the run *)

\* What happens around the run - the backend, the SME, the timers - leaves the run where it is.
LEMMA AroundKeeps ==
    ASSUME IInv, UNCHANGED <<at, inp, st, rem, said, files, faults>>,
           Grows(world'), world'.step = world.step, claims' \subseteq Keys,
           NEW e \in Synthetic, mail' \subseteq mail \cup {e},
           \/ e \notin Ticks
           \/ e = "settle" /\ Rank(at) >= 5
           \/ e = "poll" /\ Rank(at) >= 6
    PROVE  IInv'
  <1>. Typed
    BY DEF IInv
  <1>1. faults' = faults /\ faults \in Nat /\ faults \in 0 .. MaxFaults
    BY BoundsNat DEF Typed
  <1>2. Stays
    BY <1>1 DEF Stays, FaultsUp
  <1>3. FilesIInv' /\ PaidIInv' /\ SaidIInv' /\ ShownIInv' /\ StepsIInv'
    BY <1>2, StaysKeeps, StaysSteps DEF IInv
  <1>4. Typed'
    BY <1>1 DEF Typed, SetsTyped, Keys, Grows
  <1>5. MailIInv'
    <2>1. Rank(at) \in 0 .. 7
      BY RankNat
    <2>. QED BY <2>1 DEF IInv, MailIInv, Ticks
  <1>. QED BY <1>3, <1>4, <1>5 DEF IInv

\* The backend moves on; the webhook may be lost.
LEMMA BackendKeeps ==
    ASSUME IInv, NEW w, Backend(w), Grows(w), w.step = world.step,
           NEW e \in Webhooks, Notifies(e) \/ UNCHANGED mail
    PROVE  IInv'
  <1>1. e \in Synthetic /\ e \notin Ticks
    BY DEF Synthetic, Webhooks, StatusEvents, EventStatus, FeeEvents, Ticks
  <1>2. mail' \subseteq mail \cup {e} /\ claims' \subseteq Keys
    BY TypedKeys DEF Notifies, Posts, Backend, IInv
  <1>. QED BY <1>1, <1>2, AroundKeeps DEF Backend

\* Everything the backend does adds to what it knows.
LEMMA BackendGrows ==
    ASSUME Typed
    PROVE  /\ \A s \in JourneyStatuses : Grows(Becomes(s)) /\ Becomes(s).step = world.step
           /\ Grows([world EXCEPT !.fee = TRUE]) /\ [world EXCEPT !.fee = TRUE].step = world.step
           /\ world.offers < MaxOffers =>
                  /\ Grows([world EXCEPT !.status = "ACCEPTED", !.offers = @ + 1])
                  /\ [world EXCEPT !.status = "ACCEPTED", !.offers = @ + 1].step = world.step
           /\ Grows([world EXCEPT !.late = @ + 1]) /\ [world EXCEPT !.late = @ + 1].step = world.step
           /\ Grows([world EXCEPT !.window = "passed"]) /\ [world EXCEPT !.window = "passed"].step = world.step
  <1>1. WorldTyped(world) /\ world.offers \in 0 .. MaxOffers /\ MaxOffers \in Nat
    BY BoundsNat DEF Typed, WorldTyped
  <1>2. "ACCEPTED" \in JourneyStatuses
    BY DEF JourneyStatuses, QualifiedPlus, Settled
  <1>3. ASSUME NEW s \in JourneyStatuses PROVE Grows(Becomes(s)) /\ Becomes(s).step = world.step
    BY <1>1 DEF Becomes, Grows, WorldTyped, NewLead
  <1>4. ASSUME world.offers < MaxOffers
        PROVE  /\ Grows([world EXCEPT !.status = "ACCEPTED", !.offers = @ + 1])
               /\ [world EXCEPT !.status = "ACCEPTED", !.offers = @ + 1].step = world.step
    <2>1. PICK m \in 0 .. MaxOffers : m = world.offers + 1
      BY <1>1, <1>4
    <2>2. PICK w : w = [world EXCEPT !.status = "ACCEPTED", !.offers = m]
      OBVIOUS
    <2>3. Grows(w) /\ w.step = world.step
      BY <1>1, <1>2, <2>1, <2>2 DEF Grows, WorldTyped, NewLead
    <2>4. w = [world EXCEPT !.status = "ACCEPTED", !.offers = @ + 1]
      BY <1>1, <2>1, <2>2 DEF WorldTyped, NewLead
    <2>. QED BY <2>3, <2>4
  <1>5. /\ Grows([world EXCEPT !.fee = TRUE]) /\ [world EXCEPT !.fee = TRUE].step = world.step
        /\ Grows([world EXCEPT !.late = @ + 1]) /\ [world EXCEPT !.late = @ + 1].step = world.step
        /\ Grows([world EXCEPT !.window = "passed"]) /\ [world EXCEPT !.window = "passed"].step = world.step
    BY <1>1 DEF Grows, WorldTyped, NewLead
  <1>. QED BY <1>3, <1>4, <1>5

\* Each step of the backend, each tick and each claim that expires
LEMMA EnvironmentKeeps == ASSUME IInv, Environment PROVE IInv'
  <1>. Typed
    BY DEF IInv
  <1>1. Grows(world) /\ claims \subseteq Keys
    BY GrowsSame, TypedKeys
  <1>2. {"PRE_QUALIFIED", "IN_ELIGIBLE", "QUALIFIED", "UNQUALIFIED", "NOT_ACCEPTED", "OFFER_ACCEPTED",
         "OFFER_EXPIRED", "ACTIVATED"} \subseteq JourneyStatuses
    BY DEF JourneyStatuses, QualifiedPlus, Documenting, Settled
  <1>3. {"prequal", "score", "offers", "selected", "activated", "paid", "waived", "rejected"} \subseteq Webhooks
    BY DEF Webhooks, StatusEvents, EventStatus, FeeEvents
  <1>4. ASSUME NEW s \in {"PRE_QUALIFIED", "IN_ELIGIBLE", "QUALIFIED", "UNQUALIFIED", "NOT_ACCEPTED",
                          "OFFER_ACCEPTED", "OFFER_EXPIRED", "ACTIVATED"},
               NEW e \in Webhooks, Backend(Becomes(s)), Notifies(e) \/ UNCHANGED mail
        PROVE  IInv'
    <2>1. PICK w : w = Becomes(s)
      OBVIOUS
    <2>2. Grows(w) /\ w.step = world.step
      BY <1>2, <2>1, BackendGrows
    <2>3. Backend(w)
      BY <1>4, <2>1
    <2>. QED BY <1>4, <2>2, <2>3, BackendKeeps
  <1>5. CASE PreQualifies
    BY <1>3, <1>4, <1>5 DEF PreQualifies
  <1>6. CASE Qualifies
    BY <1>3, <1>4, <1>6 DEF Qualifies
  <1>7. CASE OfferIsSelected
    BY <1>3, <1>4, <1>7 DEF OfferIsSelected
  <1>8. CASE CreditLineActivated
    BY <1>3, <1>4, <1>8 DEF CreditLineActivated
  <1>9. CASE FeeIsSettled
    <2>1. PICK w : w = [world EXCEPT !.fee = TRUE]
      OBVIOUS
    <2>2. Grows(w) /\ w.step = world.step
      BY <2>1, BackendGrows
    <2>3. Backend(w) /\ (Notifies("paid") \/ Notifies("waived"))
      BY <1>9, <2>1 DEF FeeIsSettled
    <2>. QED BY <1>3, <2>2, <2>3, BackendKeeps
  <1>10. CASE LenderAnswers
    <2>1. CASE Backend(Becomes("NOT_ACCEPTED")) /\ UNCHANGED mail
      BY <1>3, <1>4, <2>1
    <2>2. PICK w : w = [world EXCEPT !.status = "ACCEPTED", !.offers = @ + 1]
      OBVIOUS
    <2>3. CASE world.offers < MaxOffers /\ Backend(w) /\ Notifies("offers")
      <3>1. Grows(w) /\ w.step = world.step
        BY <2>2, <2>3, BackendGrows
      <3>. QED BY <1>3, <2>3, <3>1, BackendKeeps
    <2>. QED BY <1>10, <2>1, <2>2, <2>3 DEF LenderAnswers
  <1>11. CASE ArrivesLate
    <2>1. PICK e \in StatusEvents : Posts(e)
      BY <1>11 DEF ArrivesLate
    <2>2. PICK w : w = [world EXCEPT !.late = @ + 1]
      OBVIOUS
    <2>3. Backend(w) /\ Grows(w) /\ w.step = world.step
      BY <1>11, <2>2, BackendGrows DEF ArrivesLate
    <2>4. e \in Webhooks /\ Notifies(e)
      BY <2>1 DEF Webhooks, Notifies
    <2>. QED BY <2>3, <2>4, BackendKeeps
  <1>12. CASE PollTick
    <2>1. Rank(at) >= 6
      BY <1>12 DEF PollTick, Pollable, Rank, Entry, Contacting, Consenting, Reporting, Expecting, Looping, Billing
    <2>2. /\ UNCHANGED <<at, inp, st, rem, said, files, faults>> /\ world' = world /\ claims' = claims
          /\ mail' = mail \cup {"poll"}
      BY <1>12 DEF PollTick, Posts
    <2>3. "poll" \in Synthetic
      BY DEF Synthetic, Ticks
    <2>. QED BY <1>1, <2>1, <2>2, <2>3, AroundKeeps
  <1>13. CASE MaybeSettleDocs
    <2>1. Rank(at) >= 5
      BY <1>13, LoopRanks DEF MaybeSettleDocs
    <2>2. /\ UNCHANGED <<at, inp, st, rem, said, files, faults>> /\ world' = world
          /\ claims' = claims \cup {"settle"} /\ mail' = mail \cup {"settle"}
      BY <1>13 DEF MaybeSettleDocs, Posts
    <2>3. "settle" \in Synthetic /\ claims' \subseteq Keys
      BY <1>1, <2>2 DEF Synthetic, Ticks, Keys
    <2>. QED BY <1>1, <2>1, <2>2, <2>3, AroundKeeps
  <1>14. CASE ClaimExpires
    <2>1. /\ UNCHANGED <<at, inp, st, rem, said, files, faults>> /\ world' = world
          /\ claims' \subseteq claims /\ mail' \subseteq mail \cup {"paid"}
      BY <1>14 DEF ClaimExpires
    <2>2. "paid" \in Synthetic /\ "paid" \notin Ticks
      BY DEF Synthetic, Ticks, Webhooks, FeeEvents
    <2>. QED BY <1>1, <2>1, <2>2, AroundKeeps
  <1>15. CASE WindowPasses
    <2>1. PICK w : w = [world EXCEPT !.window = "passed"]
      OBVIOUS
    <2>2. Grows(w) /\ w.step = world.step
      BY <2>1, BackendGrows
    <2>3. /\ UNCHANGED <<at, inp, st, rem, said, files, faults>> /\ world' = w
          /\ claims' = claims /\ mail' \subseteq mail \cup {"paid"}
      BY <1>15, <2>1 DEF WindowPasses
    <2>4. "paid" \in Synthetic /\ "paid" \notin Ticks
      BY DEF Synthetic, Ticks, Webhooks, FeeEvents
    <2>. QED BY <1>1, <2>2, <2>3, <2>4, AroundKeeps
  <1>. QED BY <1>5, <1>6, <1>7, <1>8, <1>9, <1>10, <1>11, <1>12, <1>13, <1>14, <1>15 DEF Environment

-----------------------------------------------------------------------------
(* The inductive invariant *)

\* The nodes that open a channel session
LEMMA SessionNodesKeep ==
    ASSUME IInv, ChannelSessionFirst \/ ChannelSessionResume \/ ChannelSessionSecond
    PROVE  IInv'
  BY SessionsKeep, IntakeMoves DEF ChannelSessionFirst, ChannelSessionResume, ChannelSessionSecond

\* A new run, with whatever the backend knows of a returning SME, satisfies the inductive invariant.
LEMMA InitIInv == Init => IInv
  <1>. SUFFICES ASSUME Init PROVE IInv
    OBVIOUS
  <1>1. Rank(at) = 0 /\ at = "entry_registration_check"
    BY DEF Init, Rank, Entry
  <1>2. at \notin Looping \cup Billing \cup Uploading
    BY <1>1 DEF Looping, Billing, Uploading
  <1>3. MaxOffers \in Nat /\ MaxFaults \in Nat
    BY BoundsNat
  <1>4. /\ st.status = "NONE" /\ st.source = "none" /\ st.missing = {} /\ st.prompt_sig = {}
        /\ st.extras = {} /\ st.cr_reject_count = 0 /\ st.step = 0 /\ st.offers = 0 /\ st.reg_offers = 0
        /\ st.preview = MaxOffers + 1 /\ DOMAIN st = DOMAIN NewState
        /\ ~st.uploaded /\ ~st.paid /\ ~st.complete_sent /\ ~st.confirmed_sent /\ ~st.offer_confirmed_sent
    BY DEF Init, NewState
  <1>5. StTyped(st)
    BY <1>3, <1>4 DEF StTyped
  <1>6. /\ world.status \in JourneyStatuses /\ world.offers \in 0 .. MaxOffers /\ world.step = 0
        /\ world.saved = {} /\ DOMAIN world = DOMAIN NewLead("email")
    <2>1. PICK ch \in Channels : world \in {NewLead(ch)} \cup {w \in ReturningLeads(ch) : Plausible(w)}
      BY DEF Init
    <2>2. CASE world = NewLead(ch)
      BY <1>3, <2>2 DEF NewLead, JourneyStatuses
    <2>3. CASE world \in ReturningLeads(ch)
      <3>1. PICK s \in Returning, paid \in BOOLEAN, n \in 0 .. MaxOffers : world = Returned(ch, s, paid, n)
        BY <2>3 DEF ReturningLeads
      <3>. QED BY <3>1, ReturningAssumption DEF Returned, NewLead
    <2>. QED BY <2>1, <2>2, <2>3
  <1>7. WorldTyped(world)
    BY <1>6 DEF WorldTyped
  <1>8. /\ said = Nothing /\ DOMAIN said.preview = 0 .. MaxOffers
        /\ \A n \in 0 .. MaxOffers : said.preview[n] = 0
        /\ said.prompt = 0 /\ said.complete = 0 /\ said.confirmed = 0 /\ said.offer_confirmed = 0
        /\ said.activated = 0 /\ said.unasked = 0
    BY DEF Init, Nothing
  <1>9. SaidTyped(said)
    BY <1>8 DEF SaidTyped
  <1>10. mail = {} /\ rem = {} /\ claims = {} /\ files = {} /\ faults = 0 /\ inp = NoInput
    BY DEF Init
  <1>11. Typed
    BY <1>3, <1>5, <1>7, <1>9, <1>10 DEF Typed, SetsTyped, Payloads
  <1>12. FilesIInv
    BY <1>1, <1>2, <1>4, <1>10 DEF FilesIInv, FilesKept, Looping
  <1>13. PaidIInv
    BY <1>4 DEF PaidIInv
  <1>14. SaidIInv
    BY <1>1, <1>4, <1>8, <1>10 DEF SaidIInv, Once
  <1>15. ShownIInv
    BY <1>1, <1>3, <1>4, <1>6, <1>8, <1>10 DEF ShownIInv, Unseen
  <1>16. MailIInv
    BY <1>10 DEF MailIInv, NoInput, Ticks
  <1>17. StepsIInv
    BY <1>1, <1>2, <1>6 DEF StepsIInv
  <1>. QED BY <1>11, <1>12, <1>13, <1>14, <1>15, <1>16, <1>17 DEF IInv

\* Every step of the run and of its surroundings keeps the inductive invariant.
LEMMA NextIInv == IInv /\ [Next]_vars => IInv'
  <1>. SUFFICES ASSUME IInv, [Next]_vars PROVE IInv'
    OBVIOUS
  <1>1. CASE PlainNodes
    BY <1>1, EntryRegistrationCheckKeeps, EmailSendsKeep, FarewellKeeps, CheckContactSendKeeps,
       CheckContactAwaitKeeps, SessionNodesKeep, ChannelSessionCreateUserKeeps, CompleteOnboardingSendKeeps,
       ResumeStatusFetchKeeps, ConsentSendKeeps, UploadFailsKeeps, CrReuploadKeeps, CrUploadKeeps,
       FinancialsSendKeeps, FinancialsUploadKeeps, DocumentsListFetchKeeps, DocumentsUploadLoopSendKeeps,
       DocumentsCompleteKeeps, PaymentPreparedKeeps, PaymentSendLinkKeeps, StatusPollsKeep, OffersFetchKeeps,
       OfferViewSendKeeps, OfferHandoffKeeps, OfferConfirmedKeeps, ActivatedKeeps
       DEF PlainNodes
  <1>2. CASE AwaitNodes
    BY <1>2, CampaignAwaitKeeps, BusinessEmailAwaitKeeps, ConsentAwaitKeeps, FinancialsAwaitKeeps,
       PrequalifyWaitAwaitKeeps, DocumentsUploadLoopAwaitKeeps, PaymentWaitAwaitKeeps, PaymentAwaitKeeps,
       LenderWaitsKeep
       DEF AwaitNodes, FeeAndLenderWaits
  <1>3. CASE Environment
    BY <1>3, EnvironmentKeeps
  <1>4. CASE UNCHANGED vars
    <2>1. /\ UNCHANGED <<at, inp, st, rem, said, files, faults>> /\ world' = world /\ claims' = claims
          /\ mail' \subseteq mail \cup {"paid"}
      BY <1>4 DEF vars
    <2>2. "paid" \in Synthetic /\ "paid" \notin Ticks
      BY DEF Synthetic, Ticks, Webhooks, FeeEvents
    <2>. QED BY <2>1, <2>2, GrowsSame, TypedKeys, AroundKeeps DEF IInv
  <1>. QED BY <1>1, <1>2, <1>3, <1>4 DEF Next

\* The inductive invariant holds in every behaviour.
LEMMA AlwaysIInv == Spec => []IInv
  BY InitIInv, NextIInv, PTL DEF Spec

-----------------------------------------------------------------------------
(* The theorems *)

\* Files and documents are where the run claims they are.  A document that
\* counts as uploaded was saved; nothing can be complete before.
THEOREM FilesCorrect == Spec => []FilesInv
  <1>1. IInv => FilesInv
    <2>. SUFFICES ASSUME IInv PROVE FilesInv
      OBVIOUS
    <2>1. TypeOK
      BY DEF IInv, Typed, StTyped, WorldTyped, SetsTyped, Payloads, Reasons, TypeOK
    <2>2. FilesKept
      BY DEF IInv, FilesIInv
    <2>3. DocsBacked
      <3>1. CASE world.channel = "whatsapp" /\ st.uploaded
        BY <3>1 DEF IInv, FilesIInv, Backed, DocsBacked
      <3>2. CASE world.channel = "whatsapp" /\ at = "documents_complete"
        <4>1. at \in Looping /\ st.missing # Docs
          BY <3>2, DocsAssumption DEF IInv, FilesIInv, Looping
        <4>. QED BY <3>2, <4>1 DEF IInv, FilesIInv, Backed, DocsBacked
      <3>. QED BY <3>1, <3>2 DEF DocsBacked
    <2>. QED BY <2>1, <2>2, <2>3 DEF FilesInv
  <1>. QED BY <1>1, AlwaysIInv, PTL

\* The SME is told everything once, once more for each failure, nothing unasked,
\* and of the activation never before the confirmation.
THEOREM SaidCorrect == Spec => []SaidInv
  <1>1. IInv => SaidInv
    <2>. SUFFICES ASSUME IInv PROVE SaidInv
      OBVIOUS
    <2>1. /\ said.complete \in Nat /\ said.prompt \in Nat /\ said.confirmed \in Nat
          /\ said.offer_confirmed \in Nat /\ faults \in Nat
          /\ \A n \in 0 .. MaxOffers : said.preview[n] \in Nat
      BY BoundsNat DEF IInv, Typed, SaidTyped
    <2>2. IsFiniteSet(st.prompt_sig) /\ Cardinality(Docs) \in Nat /\ Cardinality(st.prompt_sig) \in Nat
      BY DocsAssumption, FS_CardinalityType, FS_Subset DEF IInv, Typed, StTyped
    <2>3. said.prompt <= Cardinality(Docs) + faults
      <3>1. CASE st.prompt_sig = {}
        BY <2>1, <2>2, <3>1 DEF IInv, SaidIInv
      <3>2. CASE st.prompt_sig # {}
        <4>1. Cardinality(st.prompt_sig) # 0
          BY <2>2, <3>2, FS_EmptySet
        <4>2. said.prompt + Cardinality(st.prompt_sig) <= faults + Cardinality(Docs) + 1
          BY <3>2 DEF IInv, SaidIInv
        <4>. QED BY <2>1, <2>2, <4>1, <4>2
      <3>. QED BY <3>1, <3>2
    <2>4. said.complete <= 1 + faults /\ said.confirmed <= 1 + faults /\ said.offer_confirmed <= 1 + faults
      BY <2>1 DEF IInv, SaidIInv, Once
    <2>5. \A n \in 0 .. MaxOffers : said.preview[n] <= 1 + faults
      BY <2>1 DEF IInv, ShownIInv
    <2>6. SilentTicks /\ ActivatedAfterConfirmed
      BY DEF IInv, SaidIInv, SilentTicks, ActivatedAfterConfirmed
    <2>. QED BY <2>3, <2>4, <2>5, <2>6 DEF SaidInv, SaidOnce
  <1>. QED BY <1>1, AlwaysIInv, PTL

\* Who has settled the fee is not asked for it.
THEOREM PaidCorrect == Spec => []PaidNeverBilled
  <1>1. IInv => PaidNeverBilled
    <2>1. Rank("payment_create") = 6 /\ Rank("payment_send_link") = 6
      BY DEF Rank, Entry, Contacting, Consenting, Reporting, Expecting, Looping, Billing
    <2>. QED BY <2>1 DEF IInv, PaidIInv, PaidNeverBilled
  <1>. QED BY <1>1, AlwaysIInv, PTL

-----------------------------------------------------------------------------
(* The step the backend keeps *)

\* Each report is the highest step of its rank; behind it only a run that is
\* billed again can be, which takes two failures.
LEMMA ReportsForward ==
    ASSUME IInv, NEW n \in 0 .. 8,
           world'.step \in {world.step, n}, world'.step # world.step => n > st.step,
           \/ Rank(at) <= 5 /\ n = Rank(at)
           \/ at = "payment_send_link" /\ n = 6
           \/ at = "payment_await" /\ n = 7
           \/ n = 8
    PROVE  world'.step < world.step => faults > 1
  <1>1. world.step \in 0 .. 8 /\ st.step \in 0 .. 8
    BY DEF IInv, Typed, WorldTyped, StTyped
  <1>2. Rank(at) \in 0 .. 7
    BY RankNat
  <1>3. CASE Rank(at) <= 5 /\ n = Rank(at)
    BY <1>1, <1>2, <1>3 DEF IInv, StepsIInv
  <1>4. CASE at = "payment_send_link" /\ n = 6
    BY <1>1, <1>4 DEF IInv, StepsIInv, Billing
  <1>5. CASE at = "payment_await" /\ n = 7
    BY <1>1, <1>5 DEF IInv, StepsIInv, Billing
  <1>6. CASE n = 8
    BY <1>1, <1>6
  <1>. QED BY <1>3, <1>4, <1>5, <1>6

\* What a node did to the backend is all of it or nothing.
LEMMA NodeWorld ==
    ASSUME NEW n, NEW next, NEW new, NEW w, NEW r, NEW s, NEW f, Node(n, next, new, w, r, s, f)
    PROVE  at = n /\ world' \in {world, w}
  BY DEF Node, At, RunsTo, Raises

\* What an answer does to the backend, it does whole or not at all.
LEMMA ThenWorld ==
    ASSUME NEW p, NEW next, NEW new, NEW w, NEW r, NEW s, NEW f, NEW got, Then(p, next, new, w, r, s, f, got)
    PROVE  world' \in {world, w}
  BY DEF Then, RunsTo, Raises

\* A node that touches only its own state leaves the backend alone.
LEMMA PureWorld ==
    ASSUME NEW n, NEW next, NEW new, NEW f, Pure(n, next, new, f)
    PROVE  world' = world
  BY NodeWorld DEF Pure

\* What a report makes of the step
LEMMA ProgressedStep ==
    ASSUME Typed, NEW w, Grows(w), w.step = world.step, NEW n \in 0 .. 8, NEW f, world' \in {world, w, Progressed(w, n, f)}
    PROVE  world'.step \in {world.step, n} /\ (world'.step # world.step => n > st.step)
  <1>1. PICK v : v = Progressed(w, n, f)
    OBVIOUS
  <1>2. /\ v.step \in {w.step, n}
        /\ world.channel # "whatsapp" \/ f # 0 \/ ~(n > st.step) => v.step = w.step
    BY <1>1, ProgressedGrows
  <1>. QED BY <1>1, <1>2

Steady == world'.step = world.step

\* A step that leaves the recorded step alone does not take it back.
LEMMA SteadyForward == ASSUME IInv, Steady PROVE world'.step < world.step => faults > 1
  BY DEF Steady, IInv, Typed, WorldTyped

\* The nodes that only read the backend
LEMMA ReadersSteady ==
    ASSUME \/ EntryRegistrationCheck
           \/ CampaignSend
           \/ Farewell
           \/ CheckContactSend
           \/ CheckContactAwait
           \/ ChannelSessionFirst
           \/ ChannelSessionResume
           \/ ChannelSessionSecond
           \/ BusinessEmailSend
           \/ BusinessEmailConflictSend
           \/ ResumeStatusFetch
           \/ ConsentSend
           \/ DocumentsListFetch
           \/ BusinessDetailsFetch
           \/ ProductsListFetch
           \/ LenderStatusPoll
           \/ StatusPollOnDemand
           \/ OfferHandoffToMadad
    PROVE  Steady
  BY PureWorld
     DEF Steady, EntryRegistrationCheck, CampaignSend, Farewell, Declined, DomainBlocked, RegisteredRouteSend,
         ResumeRejected, ResumeOfferExpired, ResumeApplicationOpen, NotEligible, NotQualified, NotPreQualified,
         Ends, CheckContactSend, CheckContactAwait, Sessions, ChannelSessionFirst, ChannelSessionResume,
         ChannelSessionSecond, BusinessEmailSend, BusinessEmailConflictSend, ResumeStatusFetch, ConsentSend,
         DocumentsListFetch, BusinessDetailsFetch, ProductsListFetch, Polls, LenderStatusPoll,
         StatusPollOnDemand, OfferHandoffToMadad

\* The nodes that write something else there
LEMMA WritersSteady ==
    ASSUME IInv,
           \/ CompleteOnboardingSend
           \/ CrUploadFails
           \/ CrReupload
           \/ FinancialsSend
           \/ FinancialsUploadFails
           \/ DocumentsUploadLoopSend
           \/ PaymentCreate
           \/ OfferViewSend
           \/ OfferConfirmed
           \/ Activated
    PROVE  Steady
  <1>. Typed
    BY DEF IInv
  <1>1. CASE CompleteOnboardingSend
    <2>1. PICK w : w = Account(world, "ONBOARDED")
      OBVIOUS
    <2>2. w.step = world.step
      BY <2>1, AccountGrows DEF JourneyStatuses
    <2>. QED BY <1>1, <2>1, <2>2, NodeWorld, PureWorld DEF CompleteOnboardingSend, Steady
  <1>2. CASE CrUploadFails \/ CrReupload \/ FinancialsUploadFails
    BY <1>2 DEF CrUploadFails, CrReupload, FinancialsUploadFails, Raises, RunsTo, Steady
  <1>3. CASE FinancialsSend
    BY <1>3, NodeWorld, PureWorld DEF FinancialsSend, Steady
  <1>4. CASE DocumentsUploadLoopSend
    BY <1>4, ThenWorld DEF DocumentsUploadLoopSend, RunsTo, Steady
  <1>5. CASE PaymentCreate
    <2>1. PICK w : w = [world EXCEPT !.payment = TRUE]
      OBVIOUS
    <2>2. w.step = world.step
      BY <2>1 DEF Typed, WorldTyped, NewLead
    <2>. QED BY <1>5, <2>1, <2>2, NodeWorld, PureWorld DEF PaymentCreate, Steady
  <1>6. CASE OfferViewSend
    <2>1. PICK w : w = [world EXCEPT !.window = "open"]
      OBVIOUS
    <2>2. w.step = world.step
      BY <2>1 DEF Typed, WorldTyped, NewLead
    <2>. QED BY <1>6, <2>1, <2>2, NodeWorld, PureWorld DEF OfferViewSend, RunsTo, Steady
  <1>7. CASE OfferConfirmed
    BY <1>7, NodeWorld, PureWorld DEF OfferConfirmed, Steady
  <1>8. CASE Activated
    BY <1>8, NodeWorld DEF Activated, Raises, Steady
  <1>. QED BY <1>1, <1>2, <1>3, <1>4, <1>5, <1>6, <1>7, <1>8

\* The nodes that report a step and wait for nothing
LEMMA ReportersForward ==
    ASSUME IInv,
           \/ ChannelSessionCreateUser
           \/ CrUpload
           \/ FinancialsUpload
           \/ DocumentsComplete
           \/ PaymentSendLink
           \/ OffersFetch
    PROVE  world'.step < world.step => faults > 1
  <1>. Typed
    BY DEF IInv
  <1>1. Grows(world)
    BY GrowsSame
  <1>2. /\ Rank("channel_session_create_user") = 1 /\ Rank("cr_upload_base64") = 2
        /\ Rank("financials_upload_base64") = 3 /\ Rank("documents_complete") = 5
    BY DEF Rank, Entry, Contacting, Consenting, Reporting, Expecting, Looping
  <1>3. CASE ChannelSessionCreateUser
    <2>1. PICK f \in ProgressFaults(1) :
              Node("channel_session_create_user", "business_email_send",
                   Recorded([st EXCEPT !.token = TRUE], 1, f), Progressed(Account(world, "SIGN_UP"), 1, f),
                   rem, said, f)
      BY <1>3 DEF ChannelSessionCreateUser
    <2>2. PICK w : w = Account(world, "SIGN_UP")
      OBVIOUS
    <2>3. Grows(w) /\ w.step = world.step
      BY <2>2, AccountGrows DEF JourneyStatuses
    <2>4. at = "channel_session_create_user" /\ world' \in {world, Progressed(w, 1, f)}
      BY <2>1, <2>2, NodeWorld
    <2>5. world'.step \in {world.step, 1} /\ (world'.step # world.step => 1 > st.step)
      BY <2>3, <2>4, ProgressedStep
    <2>. QED BY <1>2, <2>4, <2>5, ReportsForward
  <1>4. CASE CrUpload
    <2>1. PICK kept \in SUBSET st.extras, f \in ProgressFaults(2) :
              Node("cr_upload_base64", "financials_send",
                   Recorded([st EXCEPT !.cr_reject_count = 0, !.token = TRUE, !.extras = kept], 2, f),
                   Progressed(Drained(CrSaved(world), kept), 2, f), rem, said, f + DrainFaults(kept))
      BY <1>4 DEF CrUpload
    <2>2. PICK w : w = CrSaved(world)
      OBVIOUS
    <2>3. Grows(w) /\ w.step = world.step
      BY <2>2, CrSavedGrows
    <2>4. PICK d : d = Drained(w, kept)
      OBVIOUS
    <2>5. Grows(d) /\ d.step = world.step
      BY <2>3, <2>4, DrainedGrows
    <2>6. at = "cr_upload_base64" /\ world' \in {world, Progressed(d, 2, f)}
      BY <2>1, <2>2, <2>4, NodeWorld
    <2>7. world'.step \in {world.step, 2} /\ (world'.step # world.step => 2 > st.step)
      BY <2>5, <2>6, ProgressedStep
    <2>. QED BY <1>2, <2>6, <2>7, ReportsForward
  <1>5. CASE FinancialsUpload
    <2>1. PICK kept \in SUBSET st.extras, f \in ProgressFaults(3) :
              Node("financials_upload_base64", "prequalify_wait_await",
                   Recorded([st EXCEPT !.token = TRUE, !.extras = kept], 3, f),
                   Progressed(Drained([world EXCEPT !.saved = @ \cup {"fin"}], kept), 3, f),
                   rem, said, f + DrainFaults(kept))
      BY <1>5 DEF FinancialsUpload
    <2>2. PICK w : w = [world EXCEPT !.saved = @ \cup {"fin"}]
      OBVIOUS
    <2>3. Grows(w) /\ w.step = world.step
      BY <1>1, <2>2 DEF Grows, WorldTyped, NewLead
    <2>4. PICK d : d = Drained(w, kept)
      OBVIOUS
    <2>5. Grows(d) /\ d.step = world.step
      BY <2>3, <2>4, DrainedGrows
    <2>6. at = "financials_upload_base64" /\ world' \in {world, Progressed(d, 3, f)}
      BY <2>1, <2>2, <2>4, NodeWorld
    <2>7. world'.step \in {world.step, 3} /\ (world'.step # world.step => 3 > st.step)
      BY <2>5, <2>6, ProgressedStep
    <2>. QED BY <1>2, <2>6, <2>7, ReportsForward
  <1>6. CASE DocumentsComplete
    <2>1. PICK f : at = "documents_complete" /\ world' \in {world, Progressed(world, 5, f)}
      BY <1>6, NodeWorld DEF DocumentsComplete
    <2>2. world'.step \in {world.step, 5} /\ (world'.step # world.step => 5 > st.step)
      BY <1>1, <2>1, ProgressedStep
    <2>. QED BY <1>2, <2>1, <2>2, ReportsForward
  <1>7. CASE PaymentSendLink
    <2>1. PICK f : at = "payment_send_link" /\ world' \in {world, Progressed(world, 6, f)}
      BY <1>7, NodeWorld DEF PaymentSendLink
    <2>2. world'.step \in {world.step, 6} /\ (world'.step # world.step => 6 > st.step)
      BY <1>1, <2>1, ProgressedStep
    <2>. QED BY <2>1, <2>2, ReportsForward
  <1>8. CASE OffersFetch
    <2>1. PICK f : world' \in {world, Progressed(world, 8, f)}
      BY <1>8, NodeWorld DEF OffersFetch
    <2>2. world'.step \in {world.step, 8} /\ (world'.step # world.step => 8 > st.step)
      BY <1>1, <2>1, ProgressedStep
    <2>. QED BY <2>2, ReportsForward
  <1>. QED BY <1>3, <1>4, <1>5, <1>6, <1>7, <1>8

\* What may come of a captured document
LEMMA CapturesSteady == ASSUME IInv, NEW p, CapturesAdditional(p) PROVE Steady
  <1>. Typed
    BY DEF IInv
  <1>1. PICK kept \in SUBSET st.extras :
            world' \in {world, Drained([world EXCEPT !.saved = @ \cup {"additional"}], kept)}
    BY ThenWorld DEF CapturesAdditional
  <1>2. PICK w : w = [world EXCEPT !.saved = @ \cup {"additional"}]
    OBVIOUS
  <1>3. Grows(w) /\ w.step = world.step
    BY <1>2, GrowsSame DEF Grows, WorldTyped, NewLead, Extras
  <1>4. PICK d : d = Drained(w, kept)
    OBVIOUS
  <1>5. d.step = world.step
    BY <1>3, <1>4, DrainedGrows
  <1>6. world' \in {world, d}
    BY <1>1, <1>2, <1>4
  <1>. QED BY <1>5, <1>6 DEF Steady

\* An answer in the documents loop
LEMMA LoopForward == ASSUME IInv, DocumentsUploadLoopAwait PROVE world'.step < world.step => faults > 1
  <1>. Typed
    BY DEF IInv
  <1>1. PICK p : /\ at = "documents_upload_loop_await"
                 /\ \/ FeeSettled(p)
                    \/ ForcedStatus(p)
                    \/ SettlePrompt(p)
                    \/ DoneUploading(p)
                    \/ StaysInLoop(p)
                    \/ Upload(p)
    BY DEF DocumentsUploadLoopAwait, Resumed, At
  <1>2. Rank(at) = 5 /\ Grows(world)
    BY <1>1, LoopRanks, GrowsSame
  <1>3. ASSUME NEW f, world' \in {world, Progressed(world, 5, f)} PROVE world'.step < world.step => faults > 1
    <2>1. world'.step \in {world.step, 5} /\ (world'.step # world.step => 5 > st.step)
      BY <1>2, <1>3, ProgressedStep
    <2>. QED BY <1>2, <2>1, ReportsForward
  <1>4. ASSUME world' = world PROVE world'.step < world.step => faults > 1
    BY <1>4, SteadyForward DEF Steady
  <1>5. CASE FeeSettled(p)
    BY <1>3, <1>5, ThenWorld DEF FeeSettled, Loops
  <1>6. CASE ForcedStatus(p)
    BY <1>3, <1>4, <1>6, ThenWorld DEF ForcedStatus, Loops
  <1>7. CASE SettlePrompt(p) \/ DoneUploading(p)
    BY <1>4, <1>7, ThenWorld DEF SettlePrompt, DoneUploading, Loops
  <1>8. CASE StaysInLoop(p)
    BY <1>4, <1>8 DEF StaysInLoop, Reparks, Answers, RunsTo
  <1>9. CASE Upload(p)
    <2>1. world' \in {world, [world EXCEPT !.saved = @ \cup {p}]}
      BY <1>9, ThenWorld DEF Upload, UploadSaved, UploadFailed, Loops
    <2>2. PICK w : w = [world EXCEPT !.saved = @ \cup {p}]
      OBVIOUS
    <2>3. w.step = world.step
      BY <2>2 DEF Typed, WorldTyped, NewLead
    <2>. QED BY <2>1, <2>2, <2>3, SteadyForward DEF Steady
  <1>. QED BY <1>1, <1>5, <1>6, <1>7, <1>8, <1>9

\* The other waits
LEMMA AwaitsForward == ASSUME IInv, AwaitNodes PROVE world'.step < world.step => faults > 1
  <1>. Typed
    BY DEF IInv
  <1>1. Grows(world) /\ (world' = world => Steady)
    BY GrowsSame DEF Steady
  <1>2. CASE CampaignAwait
    BY <1>1, <1>2, ThenWorld, SteadyForward DEF CampaignAwait, Reparks, Answers, RunsTo
  <1>3. CASE BusinessEmailAwait
    <2>1. at = "business_email_await" /\ (world' = world \/ \E f : world' \in {world, Progressed(world, 2, f)})
      BY <1>3, ThenWorld DEF BusinessEmailAwait, Resumed, At, Reparks, Answers, RunsTo
    <2>2. Rank("business_email_await") = 2
      BY DEF Rank, Entry, Contacting, Consenting
    <2>3. ASSUME NEW f, world' \in {world, Progressed(world, 2, f)} PROVE world'.step < world.step => faults > 1
      <3>1. world'.step \in {world.step, 2} /\ (world'.step # world.step => 2 > st.step)
        BY <1>1, <2>3, ProgressedStep
      <3>. QED BY <2>1, <2>2, <3>1, ReportsForward
    <2>. QED BY <1>1, <2>1, <2>3, SteadyForward
  <1>4. CASE ConsentAwait
    BY <1>1, <1>4, ThenWorld, SteadyForward DEF ConsentAwait, Reparks, Answers, RunsTo
  <1>5. CASE FinancialsAwait
    BY <1>1, <1>5, ThenWorld, SteadyForward DEF FinancialsAwait, Answers, RunsTo
  <1>6. CASE PrequalifyWaitAwait
    <2>1. PICK p : /\ at = "prequalify_wait_await"
                   /\ \/ world' = world
                      \/ \E f : world' \in {world, Progressed(world, 4, f)}
                      \/ CapturesAdditional(p)
      BY <1>6, ThenWorld DEF PrequalifyWaitAwait, Resumed, At, Reparks, Answers, RunsTo
    <2>2. Rank("prequalify_wait_await") = 4
      BY DEF Rank, Entry, Contacting, Consenting, Reporting, Expecting
    <2>3. ASSUME NEW f, world' \in {world, Progressed(world, 4, f)} PROVE world'.step < world.step => faults > 1
      <3>1. world'.step \in {world.step, 4} /\ (world'.step # world.step => 4 > st.step)
        BY <1>1, <2>3, ProgressedStep
      <3>. QED BY <2>1, <2>2, <3>1, ReportsForward
    <2>. QED BY <1>1, <2>1, <2>3, CapturesSteady, SteadyForward
  <1>7. CASE DocumentsUploadLoopAwait
    BY <1>7, LoopForward
  <1>8. CASE PaymentWaitAwait
    <2>1. PICK p : world' = world \/ CapturesAdditional(p)
      BY <1>8 DEF PaymentWaitAwait, Reparks, Answers, RunsTo
    <2>. QED BY <1>1, <2>1, CapturesSteady, SteadyForward
  <1>9. CASE PaymentAwait
    <2>1. at = "payment_await" /\ (world' = world \/ \E f : world' \in {world, Progressed(world, 7, f)})
      BY <1>9, ThenWorld
         DEF PaymentAwait, Resumed, At, Reparks, Answers, RunsTo, ConfirmsPayment, FeeWaived, ChecksWaiver
    <2>2. ASSUME NEW f, world' \in {world, Progressed(world, 7, f)} PROVE world'.step < world.step => faults > 1
      <3>1. world'.step \in {world.step, 7} /\ (world'.step # world.step => 7 > st.step)
        BY <1>1, <2>2, ProgressedStep
      <3>. QED BY <2>1, <3>1, ReportsForward
    <2>. QED BY <1>1, <2>1, <2>2, SteadyForward
  <1>10. CASE LenderWaitAwait \/ JourneyWaitAwait
    BY <1>1, <1>10, SteadyForward DEF LenderWaitAwait, JourneyWaitAwait, WaitsForStatus, Answers, RunsTo
  <1>. QED BY <1>2, <1>3, <1>4, <1>5, <1>6, <1>7, <1>8, <1>9, <1>10 DEF AwaitNodes, FeeAndLenderWaits

\* The backend itself moves no step.
LEMMA EnvironmentSteady == ASSUME IInv, Environment PROVE Steady
  <1>. Typed
    BY DEF IInv
  <1>1. DOMAIN world = DOMAIN NewLead("email")
    BY DEF Typed, WorldTyped
  <1>2. CASE PreQualifies \/ Qualifies \/ OfferIsSelected \/ CreditLineActivated
    BY <1>1, <1>2 DEF PreQualifies, Qualifies, OfferIsSelected, CreditLineActivated, Backend, Becomes, Steady, NewLead
  <1>3. CASE FeeIsSettled \/ LenderAnswers
    BY <1>1, <1>3 DEF FeeIsSettled, LenderAnswers, Backend, Becomes, Steady, NewLead
  <1>4. CASE ArrivesLate \/ WindowPasses
    BY <1>1, <1>4 DEF ArrivesLate, WindowPasses, Backend, Steady, NewLead
  <1>5. CASE PollTick \/ MaybeSettleDocs \/ ClaimExpires
    BY <1>5 DEF PollTick, MaybeSettleDocs, ClaimExpires, Steady
  <1>. QED BY <1>2, <1>3, <1>4, <1>5 DEF Environment

\* The backend's step goes back only after a second failure.
THEOREM StepsCorrect == Spec => StepsForward
  <1>1. IInv /\ [Next]_vars => [world'.step < world.step => faults > 1]_vars
    <2>. SUFFICES ASSUME IInv, Next PROVE world'.step < world.step => faults > 1
      OBVIOUS
    <2>1. CASE PlainNodes
      BY <2>1, ReadersSteady, WritersSteady, SteadyForward, ReportersForward DEF PlainNodes
    <2>2. CASE AwaitNodes
      BY <2>2, AwaitsForward
    <2>3. CASE Environment
      BY <2>3, EnvironmentSteady, SteadyForward
    <2>. QED BY <2>1, <2>2, <2>3 DEF Next
  <1>. QED BY <1>1, AlwaysIInv, PTL DEF Spec, StepsForward

=============================================================================
