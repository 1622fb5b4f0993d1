-------------------------- MODULE InvoiceDeskProofs --------------------------
(***************************************************************************)
(* Proofs about InvoiceDesk, for any uploads, any of their invoices         *)
(* unreadable, and any bounds on cards, webhooks and failures.              *)
(*                                                                         *)
(* DeskInv is inductive: the ledger, the messages about money and what was  *)
(* shown are one step's business each.  LodgedOnce is not: what an invoice  *)
(* may still be submitted for is a card, a row of the sheet or an upload    *)
(* whose fingerprint is not kept yet, and CountInv adds these to what was   *)
(* submitted.  It needs that an invoice is in one upload (Apart) and that   *)
(* no fingerprint has been pushed out (Room).                               *)
(***************************************************************************)
EXTENDS InvoiceDesk, FiniteSetTheorems, SequenceTheorems, TLAPS

-----------------------------------------------------------------------------
(* The inductive invariant *)

DeskRecord ==
    [draft : Invoices \cup {NoDraft}, batch : Seq(Invoices), last : Uploads \cup {{}},
     sigs : Seq(Uploads), ledger : [Invoices -> Nat], booked : [Events -> Nat],
     outstanding : BOOLEAN]

Shape ==
    /\ desk \in DeskRecord /\ Len(desk.sigs) <= KeptSigs
    /\ lodged \in [Invoices -> Nat] /\ cards \in [Invoices -> Nat]
    /\ told \in [Events -> Nat] /\ came \in [Events -> 0 .. MaxEvents]
    /\ claims \subseteq Uploads /\ recent \in BOOLEAN
    /\ faults \in 0 .. MaxFaults

\* What waits for the SME's word was shown.
ShownFirst ==
    /\ desk.draft # NoDraft => cards[desk.draft] > 0
    /\ \A i \in Range(desk.batch) : cards[i] > 0

DeskInv == Shape /\ ShownFirst /\ NotUnseen /\ LedgerBacked /\ MoneyTold

-----------------------------------------------------------------------------

\* Plus counts one more for each of a set.
LEMMA PlusFacts ==
    ASSUME NEW D, NEW f \in [D -> Nat], NEW S
    PROVE  /\ Plus(f, S) \in [D -> Nat]
           /\ \A x \in D : Plus(f, S)[x] = IF x \in S THEN f[x] + 1 ELSE f[x]
BY DEF Plus

\* The sequence of a finite set has its elements and no other.
LEMMA SeqOfFacts ==
    ASSUME NEW S, IsFiniteSet(S)
    PROVE  SetToSeq(S) \in Seq(S) /\ Range(SetToSeq(S)) \subseteq S
<1> DEFINE n == Cardinality(S)
<1>1. n \in Nat /\ ExistsBijection(1 .. n, S)
  BY FS_CardinalityType
<1>2. PICK f \in [1 .. n -> S] : IsInjective(f)
  BY <1>1 DEF ExistsBijection, Bijection, Injection
<1>3. SetToSeq(S) \in [1 .. n -> S]
  BY <1>2 DEF SetToSeq
<1> HIDE DEF n
<1> QED
  BY <1>1, <1>3 DEF Range

\* Two sequences, one after the other.
LEMMA ConcatRange ==
    ASSUME NEW S, NEW p \in Seq(S), NEW q \in Seq(S)
    PROVE  p \o q \in Seq(S) /\ Range(p \o q) \subseteq Range(p) \cup Range(q)
<1>1. /\ p \o q \in Seq(S) /\ Len(p \o q) = Len(p) + Len(q)
      /\ \A i \in 1 .. Len(p) + Len(q) :
            (p \o q)[i] = IF i <= Len(p) THEN p[i] ELSE q[i - Len(p)]
  BY ConcatProperties
<1>2. /\ DOMAIN p = 1 .. Len(p) /\ DOMAIN q = 1 .. Len(q) /\ Len(p) \in Nat /\ Len(q) \in Nat
      /\ DOMAIN (p \o q) = 1 .. Len(p) + Len(q)
  BY <1>1
<1>3. ASSUME NEW i \in 1 .. Len(p) + Len(q) PROVE (p \o q)[i] \in Range(p) \cup Range(q)
  <2>1. CASE i <= Len(p)
    BY <1>1, <1>2, <2>1 DEF Range
  <2>2. CASE ~(i <= Len(p))
    <3>1. i - Len(p) \in DOMAIN q /\ (p \o q)[i] = q[i - Len(p)]
      BY <1>1, <1>2, <2>2
    <3> QED
      BY <3>1 DEF Range
  <2> QED
    BY <2>1, <2>2
<1> QED
  BY <1>1, <1>2, <1>3 DEF Range

\* What is kept of the fingerprints; nothing is lost of a list that is not full.
LEMMA KeptFacts ==
    ASSUME NEW q \in Seq(Uploads), NEW s \in Uploads, Len(q) <= KeptSigs
    PROVE  /\ KeepLast(Append(q, s)) \in Seq(Uploads) /\ Len(KeepLast(Append(q, s))) <= KeptSigs
           /\ Len(q) < KeptSigs => Range(q) \cup {s} \subseteq Range(KeepLast(Append(q, s)))
<1>1. PICK n \in Nat : n = Len(q) /\ n <= KeptSigs
  OBVIOUS
<1>2. PICK k \in Nat : k = KeptSigs /\ k > 0
  BY DeskBounds
<1> DEFINE w == Append(q, s)
<1>3. /\ w \in Seq(Uploads) /\ Len(w) = n + 1 /\ w[n + 1] = s
      /\ \A i \in 1 .. n : w[i] = q[i]
  BY <1>1, AppendProperties
<1> HIDE DEF w
<1>4. PICK m \in Int : m = (IF n + 1 > k THEN n + 1 - k + 1 ELSE 1) /\ m >= 1 /\ m <= n + 1
  <2>1. CASE n + 1 > k
    <3>1. /\ n + 1 - k + 1 \in Int /\ n + 1 - k + 1 >= 1 /\ n + 1 - k + 1 <= n + 1
          /\ n + 1 - k + 1 = (IF n + 1 > k THEN n + 1 - k + 1 ELSE 1)
      BY <1>1, <1>2, <2>1
    <3> QED
      BY <3>1
  <2>2. CASE ~(n + 1 > k)
    <3>1. 1 \in Int /\ 1 <= n + 1 /\ 1 = (IF n + 1 > k THEN n + 1 - k + 1 ELSE 1)
      BY <1>1, <1>2, <2>2
    <3> QED
      BY <3>1
  <2> QED
    BY <2>1, <2>2
<1>5. KeepLast(w) = SubSeq(w, m, n + 1)
  BY <1>2, <1>3, <1>4 DEF KeepLast
<1>6. \A i \in m .. n + 1 : w[i] \in Uploads
  BY <1>3, <1>4
<1>7. PICK u \in Int : u = n + 1
  OBVIOUS
<1>8. /\ KeepLast(w) \in Seq(Uploads) /\ Len(KeepLast(w)) = u - m + 1
      /\ \A i \in 1 .. u - m + 1 : KeepLast(w)[i] = w[m + i - 1]
  BY <1>4, <1>5, <1>6, <1>7, SubSeqProperties
<1>9. Len(KeepLast(w)) <= KeptSigs
  BY <1>1, <1>2, <1>4, <1>7, <1>8
<1>10. ASSUME n < k PROVE Range(q) \cup {s} \subseteq Range(KeepLast(w))
  <2>1. m = 1
    BY <1>4, <1>10
  <2>2. /\ DOMAIN KeepLast(w) = 1 .. n + 1
        /\ \A i \in 1 .. n + 1 : KeepLast(w)[i] = w[i]
    BY <1>7, <1>8, <2>1
  <2>3. ASSUME NEW i \in 1 .. n PROVE q[i] \in Range(KeepLast(w))
    BY <1>3, <2>2 DEF Range
  <2>4. s \in Range(KeepLast(w))
    BY <1>3, <2>2 DEF Range
  <2>5. DOMAIN q = 1 .. n
    BY <1>1
  <2> QED
    BY <2>3, <2>4, <2>5 DEF Range
<1> QED
  BY <1>1, <1>2, <1>8, <1>9, <1>10 DEF w

\* A set of invoices, and a sheet's rows.
LEMMA InvoicesOf ==
    /\ \A s \in Uploads : s \subseteq Invoices /\ IsFiniteSet(s)
    /\ \A q \in Seq(Invoices) : Range(q) \subseteq Invoices
BY UploadsAssumption DEF Invoices, Range

\* What the steps of the node do to its record, field by field.
LEMMA AttemptedFacts ==
    ASSUME NEW d \in DeskRecord, NEW s \in Uploads
    PROVE  \E e \in DeskRecord :
              /\ e = Attempted(d, s)
              /\ e.draft = d.draft /\ e.batch = d.batch /\ e.last = s /\ e.sigs = d.sigs
              /\ e.ledger = d.ledger /\ e.booked = d.booked
<1>1. [d EXCEPT !.last = s] \in DeskRecord
  BY DEF DeskRecord
<1> QED
  BY <1>1 DEF Attempted, DeskRecord

\* The invoices join the list of the submitted.
LEMMA LedgeredFacts ==
    ASSUME NEW d \in DeskRecord, NEW S
    PROVE  \E e \in DeskRecord :
              /\ e = Ledgered(d, S)
              /\ e.draft = d.draft /\ e.batch = d.batch /\ e.last = d.last /\ e.sigs = d.sigs
              /\ e.ledger = Plus(d.ledger, S) /\ e.booked = d.booked
<1>1. PICK f \in [Invoices -> Nat] : f = Plus(d.ledger, S)
  BY PlusFacts DEF DeskRecord
<1>2. [d EXCEPT !.ledger = f] \in DeskRecord
  BY DEF DeskRecord
<1>3. PICK e \in DeskRecord :
         /\ e = [d EXCEPT !.ledger = f]
         /\ e.draft = d.draft /\ e.batch = d.batch /\ e.last = d.last /\ e.sigs = d.sigs
         /\ e.ledger = f /\ e.booked = d.booked
  BY <1>2 DEF DeskRecord
<1>4. e = Ledgered(d, S)
  BY <1>1, <1>3 DEF Ledgered
<1> QED
  BY <1>1, <1>3, <1>4

\* Of the fingerprints of d, e has the last ones, and all of them with s while
\* there is room.
KeepsSigs(d, e, s) ==
    /\ Len(e.sigs) <= KeptSigs
    /\ Len(d.sigs) < KeptSigs =>
          /\ Range(d.sigs) \subseteq Range(e.sigs)
          /\ s # {} => s \in Range(e.sigs)

\* The fingerprint of s is kept.
LEMMA SigKeptFacts ==
    ASSUME NEW d \in DeskRecord, Len(d.sigs) <= KeptSigs, NEW s \in Uploads \cup {{}}
    PROVE  \E e \in DeskRecord :
              /\ e = SigKept(d, s)
              /\ e.draft = d.draft /\ e.batch = d.batch /\ e.last = d.last
              /\ e.ledger = d.ledger /\ e.booked = d.booked
              /\ KeepsSigs(d, e, s)
<1>1. d.sigs \in Seq(Uploads)
  BY DEF DeskRecord
<1>2. PICK q \in Seq(Uploads) :
         /\ q = IF s = {} THEN d.sigs ELSE KeepLast(Append(d.sigs, s))
         /\ Len(q) <= KeptSigs
         /\ Len(d.sigs) < KeptSigs =>
               /\ Range(d.sigs) \subseteq Range(q)
               /\ s # {} => s \in Range(q)
  <2>1. CASE s = {}
    BY <1>1, <2>1
  <2>2. CASE s # {}
    <3>1. /\ KeepLast(Append(d.sigs, s)) \in Seq(Uploads)
          /\ Len(KeepLast(Append(d.sigs, s))) <= KeptSigs
          /\ Len(d.sigs) < KeptSigs =>
                Range(d.sigs) \cup {s} \subseteq Range(KeepLast(Append(d.sigs, s)))
      BY <1>1, <2>2, KeptFacts
    <3> QED
      BY <2>2, <3>1
  <2> QED
    BY <2>1, <2>2
<1>3. [d EXCEPT !.sigs = q] \in DeskRecord
  BY DEF DeskRecord
<1>4. PICK e \in DeskRecord :
         /\ e = [d EXCEPT !.sigs = q]
         /\ e.draft = d.draft /\ e.batch = d.batch /\ e.last = d.last
         /\ e.ledger = d.ledger /\ e.booked = d.booked /\ e.sigs = q
  BY <1>3 DEF DeskRecord
<1>5. e = SigKept(d, s)
  BY <1>2, <1>4 DEF SigKept
<1>6. KeepsSigs(d, e, s)
  BY <1>2, <1>4 DEF KeepsSigs
<1>7. /\ e.draft = d.draft /\ e.batch = d.batch /\ e.last = d.last
      /\ e.ledger = d.ledger /\ e.booked = d.booked
  BY <1>4
<1> QED
  BY <1>5, <1>6, <1>7

\* A card is opened or closed.
LEMMA DraftFacts ==
    ASSUME NEW d \in DeskRecord, NEW i \in Invoices \cup {NoDraft}
    PROVE  \E e \in DeskRecord :
              /\ e = [d EXCEPT !.draft = i]
              /\ e.draft = i /\ e.batch = d.batch /\ e.last = d.last /\ e.sigs = d.sigs
              /\ e.ledger = d.ledger /\ e.booked = d.booked
<1>1. [d EXCEPT !.draft = i] \in DeskRecord
  BY DEF DeskRecord
<1> QED
  BY <1>1 DEF DeskRecord

\* A sheet is opened, changed or closed.
LEMMA BatchFacts ==
    ASSUME NEW d \in DeskRecord, NEW q \in Seq(Invoices)
    PROVE  \E e \in DeskRecord :
              /\ e = [d EXCEPT !.batch = q]
              /\ e.draft = d.draft /\ e.batch = q /\ e.last = d.last /\ e.sigs = d.sigs
              /\ e.ledger = d.ledger /\ e.booked = d.booked
<1>1. [d EXCEPT !.batch = q] \in DeskRecord
  BY DEF DeskRecord
<1> QED
  BY <1>1 DEF DeskRecord

\* A booking counts one for its event and none for another.
LEMMA BookedFacts ==
    ASSUME Shape, NEW e \in Events
    PROVE  \E d \in DeskRecord :
              /\ d = Booked(e)
              /\ d.draft = desk.draft /\ d.batch = desk.batch /\ d.last = desk.last
              /\ d.sigs = desk.sigs /\ d.ledger = desk.ledger
              /\ d.booked[e] = desk.booked[e] + (IF e = "due" THEN 0 ELSE 1)
              /\ \A x \in Events \ {e} : d.booked[x] = desk.booked[x]
<1>1. PICK o \in DeskRecord : o = desk
  BY DEF Shape
<1>2. PICK b \in [Events -> Nat] : b = o.booked
  BY DEF DeskRecord
<1>3. PICK n \in Nat : n = b[e] + (IF e = "due" THEN 0 ELSE 1)
  OBVIOUS
<1>4. PICK c \in [Events -> Nat] : /\ c = [b EXCEPT ![e] = n] /\ c[e] = n
                                   /\ \A x \in Events \ {e} : c[x] = b[x]
  <2>1. [b EXCEPT ![e] = n] \in [Events -> Nat]
    OBVIOUS
  <2> QED
    BY <2>1
<1> DEFINE Out == CASE e = "repaid" -> TRUE [] e = "closed" -> FALSE [] OTHER -> o.outstanding
<1>5. Out \in BOOLEAN
  <2>1. CASE e = "repaid"
    BY <2>1
  <2>2. CASE e = "closed"
    BY <2>2
  <2>3. CASE e # "repaid" /\ e # "closed"
    <3>1. o.outstanding \in BOOLEAN
      BY DEF DeskRecord
    <3> QED
      BY <2>3, <3>1
  <2> QED
    BY <2>1, <2>2, <2>3
<1>6. PICK out \in BOOLEAN : out = Out
  BY <1>5
<1>7. [o EXCEPT !.booked = c, !.outstanding = out] \in DeskRecord
  BY DEF DeskRecord
<1>8. PICK d \in DeskRecord :
         /\ d = [o EXCEPT !.booked = c, !.outstanding = out]
         /\ d.draft = o.draft /\ d.batch = o.batch /\ d.last = o.last
         /\ d.sigs = o.sigs /\ d.ledger = o.ledger /\ d.booked = c
  BY <1>7 DEF DeskRecord
<1>9. d = Booked(e)
  <2>1. CASE e = "due"
    <3>1. b[e] = n
      BY <1>3, <2>1
    <3> QED
      BY <1>1, <1>2, <1>4, <1>6, <1>8, <2>1, <3>1 DEF Booked, DeskRecord
  <2>2. CASE e # "due"
    <3>1. b[e] + 1 = n
      BY <1>3, <2>2
    <3> QED
      BY <1>1, <1>2, <1>4, <1>6, <1>8, <2>2, <3>1 DEF Booked, DeskRecord
  <2> QED
    BY <2>1, <2>2
<1>10. d.booked[e] = desk.booked[e] + (IF e = "due" THEN 0 ELSE 1)
      /\ \A x \in Events \ {e} : d.booked[x] = desk.booked[x]
  BY <1>1, <1>2, <1>3, <1>4, <1>8
<1>11. /\ d.draft = desk.draft /\ d.batch = desk.batch /\ d.last = desk.last
       /\ d.sigs = desk.sigs /\ d.ledger = desk.ledger
  BY <1>1, <1>8
<1> QED
  BY <1>9, <1>10, <1>11

\* What a run of the node may submit (took), show and write (new) with f
\* failures: it lists what it submitted, it keeps only what it shows or has
\* shown, and without a failure it submits nothing readable unseen.
Fair(took, show, new, f) ==
    /\ f \in Nat
    /\ new \in DeskRecord /\ Len(new.sigs) <= KeptSigs
    /\ new.ledger = Plus(desk.ledger, took)
    /\ new.draft \in show \cup {desk.draft, NoDraft}
    /\ Range(new.batch) \subseteq show \cup Range(desk.batch)
    /\ f = 0 => \A i \in took : i \in Unreadable \/ cards[i] > 0

\* A run that returns keeps the invariant.
LEMMA DeskReturns ==
    ASSUME DeskInv, NEW took, NEW show, NEW new, NEW f, Fair(took, show, new, f),
           Returns(took, show, new, f), told' \in [Events -> Nat], MoneyTold',
           came' \in [Events -> 0 .. MaxEvents], claims' \subseteq Uploads, recent' \in BOOLEAN
    PROVE  DeskInv'
<1>1. /\ faults' = faults + f /\ faults + f <= MaxFaults
      /\ lodged' = Plus(lodged, took) /\ cards' = Plus(cards, show) /\ desk' = new
  BY DEF Returns, Shown, Tolerates
<1>2. /\ MaxFaults \in Nat /\ faults \in Nat /\ f \in Nat
      /\ desk \in DeskRecord /\ desk.ledger \in [Invoices -> Nat]
      /\ lodged \in [Invoices -> Nat] /\ cards \in [Invoices -> Nat]
  BY DeskBounds DEF DeskInv, Shape, Fair, DeskRecord
<1>3. /\ lodged' \in [Invoices -> Nat]
      /\ \A i \in Invoices : lodged'[i] = IF i \in took THEN lodged[i] + 1 ELSE lodged[i]
  BY <1>1, <1>2, PlusFacts
<1>4. /\ cards' \in [Invoices -> Nat]
      /\ \A i \in Invoices : cards'[i] = IF i \in show THEN cards[i] + 1 ELSE cards[i]
  BY <1>1, <1>2, PlusFacts
<1>5. \A i \in Invoices : desk'.ledger[i] = IF i \in took THEN desk.ledger[i] + 1 ELSE desk.ledger[i]
  <2>1. desk'.ledger = Plus(desk.ledger, took)
    BY <1>1 DEF Fair
  <2> QED
    BY <1>2, <2>1, PlusFacts
<1>6. Shape'
  <2>1. desk' \in DeskRecord /\ Len(desk'.sigs) <= KeptSigs
    BY <1>1 DEF Fair
  <2>2. faults' \in 0 .. MaxFaults
    BY <1>1, <1>2
  <2> QED
    BY <1>3, <1>4, <2>1, <2>2 DEF Shape
<1>7. ShownFirst'
  <2>1. ASSUME NEW i \in Invoices, i \in show \/ cards[i] > 0 PROVE cards'[i] > 0
    BY <1>2, <1>4, <2>1
  <2>2. desk'.draft # NoDraft => cards'[desk'.draft] > 0
    <3>1. desk'.draft # NoDraft => desk'.draft \in Invoices /\ desk'.draft \in show \cup {desk.draft}
      BY <1>1 DEF Fair, DeskRecord
    <3> QED
      BY <2>1, <3>1 DEF DeskInv, ShownFirst
  <2>3. \A i \in Range(desk'.batch) : cards'[i] > 0
    <3>1. \A i \in Range(desk'.batch) : i \in Invoices /\ i \in show \cup Range(desk.batch)
      BY <1>1, InvoicesOf DEF Fair, DeskRecord
    <3> QED
      BY <2>1, <3>1 DEF DeskInv, ShownFirst
  <2> QED
    BY <2>2, <2>3 DEF ShownFirst
<1>8. NotUnseen'
  <2>1. ASSUME NEW i \in Invoices \ Unreadable, lodged'[i] > 0 PROVE cards'[i] > 0 \/ faults' > 0
    <3>1. CASE i \in took
      <4>1. f > 0 \/ cards[i] > 0
        BY <1>2, <2>1, <3>1 DEF Fair
      <4> QED
        BY <1>1, <1>2, <1>4, <2>1, <4>1
    <3>2. CASE i \notin took
      BY <1>1, <1>2, <1>3, <1>4, <2>1, <3>2 DEF DeskInv, NotUnseen
    <3> QED
      BY <3>1, <3>2
  <2> QED
    BY <2>1 DEF NotUnseen
<1>9. LedgerBacked'
  <2>1. ASSUME NEW i \in Invoices
        PROVE  desk'.ledger[i] <= lodged'[i] /\ lodged'[i] <= desk'.ledger[i] + faults'
    BY <1>1, <1>2, <1>3, <1>5 DEF DeskInv, LedgerBacked
  <2> QED
    BY <2>1 DEF LedgerBacked
<1> QED
  BY <1>6, <1>7, <1>8, <1>9 DEF DeskInv

\* A run that raises leaves its effects and one failure more.
LEMMA RaisesFacts ==
    ASSUME Shape, NEW p, NEW took, NEW show, NEW f \in Nat, Raises(p, took, show, f)
    PROVE  /\ desk' = desk /\ faults' \in 0 .. MaxFaults /\ faults \in Nat /\ faults' >= faults + 1
           /\ lodged' \in [Invoices -> Nat] /\ cards' \in [Invoices -> Nat]
           /\ \A i \in Invoices : /\ lodged'[i] \in {lodged[i], lodged[i] + 1}
                                  /\ cards'[i] \in {cards[i], cards[i] + 1}
<1>1. /\ faults' = faults + f + 1 /\ faults + (f + 1) <= MaxFaults /\ desk' = desk
      /\ cards' = Plus(cards, show) \/ cards' = cards
  BY DEF Raises, Shown, Tolerates
<1>2. PICK part : lodged' = Plus(lodged, part)
  BY DEF Raises
<1>3. /\ MaxFaults \in Nat /\ faults \in Nat
      /\ lodged \in [Invoices -> Nat] /\ cards \in [Invoices -> Nat]
  BY DeskBounds DEF Shape
<1>4. /\ Plus(lodged, part) \in [Invoices -> Nat]
      /\ \A i \in Invoices : Plus(lodged, part)[i] = IF i \in part THEN lodged[i] + 1 ELSE lodged[i]
  BY <1>3, PlusFacts
<1>5. /\ Plus(cards, show) \in [Invoices -> Nat]
      /\ \A i \in Invoices : Plus(cards, show)[i] = IF i \in show THEN cards[i] + 1 ELSE cards[i]
  BY <1>3, PlusFacts
<1>6. lodged' \in [Invoices -> Nat] /\ \A i \in Invoices : lodged'[i] \in {lodged[i], lodged[i] + 1}
  BY <1>2, <1>4
<1>7. cards' \in [Invoices -> Nat] /\ \A i \in Invoices : cards'[i] \in {cards[i], cards[i] + 1}
  <2>1. CASE cards' = cards
    BY <1>3, <2>1
  <2>2. CASE cards' = Plus(cards, show)
    BY <1>5, <2>2
  <2> QED
    BY <1>1, <2>1, <2>2
<1>8. faults' \in 0 .. MaxFaults /\ faults' >= faults + 1
  BY <1>1, <1>3
<1> QED
  BY <1>1, <1>3, <1>6, <1>7, <1>8

\* A run that raises keeps the invariant: the failure pays for its effects.
LEMMA DeskRaises ==
    ASSUME DeskInv, NEW p, NEW took, NEW show, NEW f \in Nat, Raises(p, took, show, f),
           told' \in [Events -> Nat], \A e \in Events : told'[e] \in {told[e], told[e] + 1},
           came' \in [Events -> 0 .. MaxEvents], claims' \subseteq Uploads, recent' \in BOOLEAN
    PROVE  DeskInv'
<1>1. /\ desk' = desk /\ faults' \in 0 .. MaxFaults /\ faults \in Nat /\ faults' >= faults + 1
      /\ lodged' \in [Invoices -> Nat] /\ cards' \in [Invoices -> Nat]
      /\ \A i \in Invoices : /\ lodged'[i] \in {lodged[i], lodged[i] + 1}
                             /\ cards'[i] \in {cards[i], cards[i] + 1}
  BY RaisesFacts DEF DeskInv
<1>2. faults' \in Nat /\ MaxFaults \in Nat
  BY <1>1, DeskBounds
<1>3. /\ desk \in DeskRecord /\ desk.ledger \in [Invoices -> Nat] /\ desk.booked \in [Events -> Nat]
      /\ lodged \in [Invoices -> Nat] /\ cards \in [Invoices -> Nat] /\ told \in [Events -> Nat]
  BY DEF DeskInv, Shape, DeskRecord
<1>4. Shape'
  BY <1>1 DEF DeskInv, Shape
<1>5. ShownFirst'
  <2>1. ASSUME NEW i \in Invoices, cards[i] > 0 PROVE cards'[i] > 0
    BY <1>1, <1>3, <2>1
  <2>2. desk.draft # NoDraft => desk.draft \in Invoices
    BY <1>3 DEF DeskRecord
  <2>3. Range(desk.batch) \subseteq Invoices
    BY <1>3, InvoicesOf DEF DeskRecord
  <2> QED
    BY <1>1, <2>1, <2>2, <2>3 DEF DeskInv, ShownFirst
<1>6. NotUnseen'
  BY <1>1, <1>2 DEF NotUnseen
<1>7. LedgerBacked'
  <2>1. ASSUME NEW i \in Invoices
        PROVE  desk'.ledger[i] <= lodged'[i] /\ lodged'[i] <= desk'.ledger[i] + faults'
    BY <1>1, <1>2, <1>3 DEF DeskInv, LedgerBacked
  <2> QED
    BY <2>1 DEF LedgerBacked
<1>8. MoneyTold'
  <2>1. ASSUME NEW e \in Events \ {"due"}
        PROVE  desk'.booked[e] <= told'[e] /\ told'[e] <= desk'.booked[e] + faults'
    BY <1>1, <1>2, <1>3 DEF DeskInv, MoneyTold
  <2> QED
    BY <2>1 DEF MoneyTold
<1> QED
  BY <1>4, <1>5, <1>6, <1>7, <1>8 DEF DeskInv

\* Nothing is told and nothing booked.
LEMMA MoneyKept ==
    ASSUME DeskInv, NEW took, NEW show, NEW new, NEW f \in Nat, Returns(took, show, new, f),
           new.booked = desk.booked, told' = told
    PROVE  MoneyTold'
<1>1. faults' = faults + f /\ desk' = new
  BY DEF Returns
<1>2. /\ faults \in Nat /\ desk.booked \in [Events -> Nat] /\ told \in [Events -> Nat]
  BY DeskBounds DEF DeskInv, Shape, DeskRecord
<1>3. ASSUME NEW e \in Events \ {"due"}
      PROVE  desk'.booked[e] <= told'[e] /\ told'[e] <= desk'.booked[e] + faults'
  BY <1>1, <1>2, <1>3 DEF DeskInv, MoneyTold
<1> QED
  BY <1>3 DEF MoneyTold

\* A run, whether it returns or raises.
LEMMA DeskRuns ==
    ASSUME DeskInv, NEW p, NEW took, NEW show, NEW new, NEW f, Fair(took, show, new, f),
           new.booked = desk.booked,
           Runs(p, took, show, new, f) \/ Works(p, took, show, new, f),
           told' = told, came' = came, claims' \subseteq Uploads, recent' \in BOOLEAN
    PROVE  DeskInv'
<1>1. Returns(took, show, new, f) \/ Raises(p, took, show, f)
  BY DEF Runs, Works
<1>2. /\ told' \in [Events -> Nat] /\ came' \in [Events -> 0 .. MaxEvents]
      /\ \A e \in Events : told'[e] \in {told[e], told[e] + 1}
  BY DEF DeskInv, Shape
<1>3. f \in Nat
  BY DEF Fair
<1>4. CASE Returns(took, show, new, f)
  BY <1>2, <1>3, <1>4, MoneyKept, DeskReturns
<1>5. CASE Raises(p, took, show, f)
  BY <1>2, <1>3, <1>5, DeskRaises
<1> QED
  BY <1>1, <1>4, <1>5

\* No invoice is sent in two uploads.
Apart == \A s, t \in Uploads : s \cap t # {} => s = t

\* The next fingerprint pushes none out.
Room == Len(desk.sigs) < KeptSigs

\* Nothing of it can be read, so nothing of it is ever shown.
Blank(s) == s \subseteq Unreadable

\* The words of the SME that an invoice waits for: on its card, in its sheet.
OnCard(i) == desk.draft = i /\ i # NoDraft
Open(i) == (IF OnCard(i) THEN 1 ELSE 0) + (IF i \in Range(desk.batch) THEN 1 ELSE 0)

\* What can be read, of an upload that can: each card or sheet is paid for once.
\* What cannot: it was submitted blank, once, and its fingerprint is kept.
Counted(s, i) ==
    IF Blank(s)
    THEN /\ ~OnCard(i) /\ i \notin Range(desk.batch)
         /\ lodged[i] <= (IF s \in Range(desk.sigs) THEN 1 ELSE 0) + faults
    ELSE lodged[i] + Open(i) <= cards[i] + faults

CountInv == \A s \in Uploads : \A i \in s : Counted(s, i)

\* What a run that returns without a failure submits has been paid for: by its
\* card or its sheet, which is closed, or by a fingerprint that is new.
Pays(took, show, new, f) ==
    /\ Range(desk.sigs) \subseteq Range(new.sigs)
    /\ new.draft = desk.draft \/ Range(new.batch) \subseteq Range(desk.batch)
    /\ \A s \in Uploads : Blank(s) => s \cap show = {}
    /\ f = 0 => \A s \in Uploads : \A i \in s \cap took :
          IF Blank(s) THEN s \notin Range(desk.sigs) /\ s \in Range(new.sigs)
          ELSE /\ i \notin show
               /\ \/ OnCard(i) /\ new.draft = NoDraft
                     /\ Range(new.batch) \subseteq Range(desk.batch)
                  \/ /\ i \in Range(desk.batch) /\ i \notin Range(new.batch)
                     /\ new.draft \in {desk.draft, NoDraft}

\* A run that returns keeps count.
LEMMA CountReturns ==
    ASSUME Shape, CountInv, NEW took, NEW show, NEW new, NEW f,
           Fair(took, show, new, f), Pays(took, show, new, f), Returns(took, show, new, f)
    PROVE  CountInv'
<1>1. /\ faults' = faults + f
      /\ lodged' = Plus(lodged, took) /\ cards' = Plus(cards, show) /\ desk' = new
  BY DEF Returns, Shown
<1>2. /\ faults \in Nat /\ f \in Nat
      /\ lodged \in [Invoices -> Nat] /\ cards \in [Invoices -> Nat]
  BY DeskBounds DEF Shape, Fair
<1>3. /\ \A i \in Invoices : lodged'[i] = IF i \in took THEN lodged[i] + 1 ELSE lodged[i]
      /\ \A i \in Invoices : cards'[i] = IF i \in show THEN cards[i] + 1 ELSE cards[i]
  BY <1>1, <1>2, PlusFacts
<1>4. ASSUME NEW s \in Uploads, NEW i \in s PROVE Counted(s, i)'
  <2>1. i \in Invoices /\ Counted(s, i)
    BY InvoicesOf DEF CountInv
  <2>2. /\ OnCard(i)' => i \in show \/ OnCard(i)
        /\ i \in Range(desk'.batch) => i \in show \/ i \in Range(desk.batch)
    BY <1>1 DEF Fair, OnCard
  <2>3. CASE Blank(s)
    <3>1. i \notin show
      BY <2>3 DEF Pays
    <3>2. ~OnCard(i)' /\ i \notin Range(desk'.batch)
      BY <2>1, <2>2, <2>3, <3>1 DEF Counted
    <3>3. lodged[i] <= (IF s \in Range(desk.sigs) THEN 1 ELSE 0) + faults
      BY <2>1, <2>3 DEF Counted
    <3>4. s \in Range(desk.sigs) => s \in Range(desk'.sigs)
      BY <1>1 DEF Pays
    <3>5. i \in took /\ f = 0 => s \notin Range(desk.sigs) /\ s \in Range(desk'.sigs)
      BY <1>1, <2>3 DEF Pays
    <3>6. PICK l \in Nat : l = lodged[i] /\ lodged'[i] = (IF i \in took THEN l + 1 ELSE l)
      BY <1>2, <1>3, <2>1
    <3>7. lodged'[i] <= (IF s \in Range(desk'.sigs) THEN 1 ELSE 0) + faults'
      BY <1>1, <1>2, <3>3, <3>4, <3>5, <3>6
    <3> QED
      BY <2>3, <3>2, <3>7 DEF Counted, Blank
  <2>4. CASE ~Blank(s)
    <3>1. lodged[i] + Open(i) <= cards[i] + faults
      BY <2>1, <2>4 DEF Counted
    <3>2. ~OnCard(i)' \/ OnCard(i) \/ ~(i \in Range(desk'.batch)) \/ i \in Range(desk.batch)
      BY <1>1 DEF Pays, OnCard
    <3>3. Open(i)' <= Open(i) + (IF i \in show THEN 1 ELSE 0)
      BY <2>2, <3>2 DEF Open
    <3>4. ASSUME i \in took, f = 0 PROVE i \notin show /\ Open(i)' <= Open(i) - 1
      <4>1. /\ i \notin show
            /\ \/ OnCard(i) /\ ~OnCard(i)' /\ (i \in Range(desk'.batch) => i \in Range(desk.batch))
               \/ /\ i \in Range(desk.batch) /\ i \notin Range(desk'.batch)
                  /\ OnCard(i)' => OnCard(i)
        BY <1>1, <2>4, <3>4 DEF Pays, OnCard
      <4> QED
        BY <4>1 DEF Open
    <3>5. PICK l \in Nat, c \in Nat, o \in Nat, q \in Nat :
             /\ l = lodged[i] /\ c = cards[i] /\ o = Open(i) /\ q = Open(i)'
             /\ lodged'[i] = (IF i \in took THEN l + 1 ELSE l)
             /\ cards'[i] = (IF i \in show THEN c + 1 ELSE c)
      BY <1>2, <1>3, <2>1 DEF Open
    <3>6. lodged'[i] + Open(i)' <= cards'[i] + faults'
      BY <1>1, <1>2, <3>1, <3>3, <3>4, <3>5
    <3> QED
      BY <2>4, <3>6 DEF Counted, Blank
  <2> QED
    BY <2>3, <2>4
<1> QED
  BY <1>4 DEF CountInv

\* A failure pays for whatever the run that raised has submitted.
LEMMA CountRaises ==
    ASSUME Shape, CountInv, NEW p, NEW took, NEW show, NEW f \in Nat, Raises(p, took, show, f)
    PROVE  CountInv'
<1>1. /\ desk' = desk /\ faults' \in 0 .. MaxFaults /\ faults \in Nat /\ faults' >= faults + 1
      /\ \A i \in Invoices : /\ lodged'[i] \in {lodged[i], lodged[i] + 1}
                             /\ cards'[i] \in {cards[i], cards[i] + 1}
  BY RaisesFacts
<1>2. lodged \in [Invoices -> Nat] /\ cards \in [Invoices -> Nat] /\ faults' \in Nat
  BY <1>1, DeskBounds DEF Shape
<1>3. ASSUME NEW s \in Uploads, NEW i \in s PROVE Counted(s, i)'
  <2>1. i \in Invoices /\ Counted(s, i)
    BY InvoicesOf DEF CountInv
  <2>2. PICK l \in Nat, c \in Nat, o \in Nat :
           /\ l = lodged[i] /\ c = cards[i] /\ o = Open(i)
           /\ lodged'[i] \in {l, l + 1} /\ cards'[i] \in {c, c + 1}
    BY <1>1, <1>2, <2>1 DEF Open
  <2>3. Open(i)' = Open(i) /\ (OnCard(i)' <=> OnCard(i))
    BY <1>1 DEF Open, OnCard
  <2>4. CASE Blank(s)
    <3>1. ~OnCard(i) /\ i \notin Range(desk.batch)
          /\ l <= (IF s \in Range(desk.sigs) THEN 1 ELSE 0) + faults
      BY <2>1, <2>2, <2>4 DEF Counted
    <3>2. lodged'[i] <= (IF s \in Range(desk'.sigs) THEN 1 ELSE 0) + faults'
      BY <1>1, <1>2, <2>2, <3>1
    <3> QED
      BY <1>1, <2>3, <2>4, <3>1, <3>2 DEF Counted, Blank
  <2>5. CASE ~Blank(s)
    <3>1. l + o <= c + faults
      BY <2>1, <2>2, <2>5 DEF Counted
    <3>2. lodged'[i] + Open(i)' <= cards'[i] + faults'
      BY <1>1, <1>2, <2>2, <2>3, <3>1
    <3> QED
      BY <2>5, <3>2 DEF Counted, Blank
  <2> QED
    BY <2>4, <2>5
<1> QED
  BY <1>3 DEF CountInv

\* A run keeps count, whether it returns or raises.
LEMMA CountRuns ==
    ASSUME Shape, CountInv, NEW p, NEW took, NEW show, NEW new, NEW f,
           Fair(took, show, new, f), Pays(took, show, new, f),
           Runs(p, took, show, new, f) \/ Works(p, took, show, new, f)
    PROVE  CountInv'
<1>1. Returns(took, show, new, f) \/ Raises(p, took, show, f)
  BY DEF Runs, Works
<1>2. f \in Nat
  BY DEF Fair
<1> QED
  BY <1>1, <1>2, CountReturns, CountRaises

\* Every step keeps count while uploads stay apart and their fingerprints kept.
KeepsCount == Apart /\ Room /\ CountInv => CountInv'

\* What a run is to be shown to do: to be fair, and to pay for what it submits.
LEMMA NodeRuns ==
    ASSUME DeskInv, NEW p, NEW took, NEW show, NEW new, NEW f, Fair(took, show, new, f),
           Apart /\ Room /\ CountInv => Pays(took, show, new, f),
           new.booked = desk.booked,
           Runs(p, took, show, new, f) \/ Works(p, took, show, new, f),
           told' = told, came' = came, claims' \subseteq Uploads, recent' \in BOOLEAN
    PROVE  DeskInv' /\ KeepsCount
<1>1. DeskInv'
  BY DeskRuns
<1>2. KeepsCount
  BY CountRuns DEF KeepsCount, DeskInv
<1> QED
  BY <1>1, <1>2

\* Nothing is submitted and nothing shown.
LEMMA PlusNothing == ASSUME NEW D, NEW g \in [D -> Nat] PROVE Plus(g, {}) = g
BY DEF Plus

\* Whoever submits and shows nothing is fair, and has nothing to pay.
LEMMA IdleRun ==
    ASSUME Shape, NEW new \in DeskRecord, NEW f \in Nat,
           new.ledger = desk.ledger, new.sigs = desk.sigs,
           new.draft \in {desk.draft, NoDraft}, Range(new.batch) \subseteq Range(desk.batch)
    PROVE  Fair({}, {}, new, f) /\ Pays({}, {}, new, f)
<1>1. Plus(desk.ledger, {}) = desk.ledger
  BY PlusNothing DEF Shape, DeskRecord
<1> QED
  BY <1>1 DEF Shape, Fair, Pays

-----------------------------------------------------------------------------
(* Uploads *)

\* Submitted as it came, when nothing of it could be read or a call failed.
LEMMA BlankRun ==
    ASSUME Shape, NEW s \in Uploads, NEW took \in SUBSET s, Fresh(s), NEW f \in Nat,
           f > 0 \/ s \subseteq Unreadable
    PROVE  \E new : /\ new = SigKept(Ledgered(Attempted(desk, s), took), s)
                    /\ new.booked = desk.booked
                    /\ Fair(took, {}, new, f) /\ (Apart /\ Room => Pays(took, {}, new, f))
<1>1. PICK a \in DeskRecord :
         /\ a = Attempted(desk, s)
         /\ a.draft = desk.draft /\ a.batch = desk.batch /\ a.sigs = desk.sigs
         /\ a.ledger = desk.ledger /\ a.booked = desk.booked
  BY AttemptedFacts DEF Shape
<1>2. PICK b \in DeskRecord :
         /\ b = Ledgered(a, took)
         /\ b.draft = a.draft /\ b.batch = a.batch /\ b.sigs = a.sigs
         /\ b.ledger = Plus(a.ledger, took) /\ b.booked = a.booked
  BY LedgeredFacts
<1>3. Len(b.sigs) <= KeptSigs /\ s \in Uploads \cup {{}} /\ s # {}
  BY <1>1, <1>2, UploadsAssumption DEF Shape
<1>4. PICK new \in DeskRecord :
         /\ new = SigKept(b, s)
         /\ new.draft = b.draft /\ new.batch = b.batch /\ new.last = b.last
         /\ new.ledger = b.ledger /\ new.booked = b.booked
         /\ KeepsSigs(b, new, s)
  BY <1>3, SigKeptFacts
<1>5. Fair(took, {}, new, f)
  BY <1>1, <1>2, <1>4 DEF Fair, KeepsSigs
<1>6. ASSUME Apart, Room PROVE Pays(took, {}, new, f)
  <2>1. Range(desk.sigs) \subseteq Range(new.sigs) /\ s \in Range(new.sigs) /\ s \notin Range(desk.sigs)
    BY <1>1, <1>2, <1>3, <1>4, <1>6 DEF Room, Fresh, KeepsSigs
  <2>2. ASSUME f = 0, NEW t \in Uploads, NEW i \in t \cap took PROVE t = s /\ Blank(s)
    BY <1>6, <2>2 DEF Apart, Blank
  <2> QED
    BY <1>1, <1>2, <1>4, <2>1, <2>2 DEF Pays
<1> QED
  BY <1>1, <1>2, <1>4, <1>5, <1>6

\* A card is opened for what could be read.
LEMMA CardRun ==
    ASSUME Shape, NEW s \in Uploads, NEW i \in s \ Unreadable, NEW f \in Nat
    PROVE  \E new : /\ new = [Attempted(desk, s) EXCEPT !.draft = i]
                    /\ new.booked = desk.booked
                    /\ Fair({}, s, new, f) /\ (Apart => Pays({}, s, new, f))
<1>1. PICK a \in DeskRecord :
         /\ a = Attempted(desk, s)
         /\ a.draft = desk.draft /\ a.batch = desk.batch /\ a.sigs = desk.sigs
         /\ a.ledger = desk.ledger /\ a.booked = desk.booked
  BY AttemptedFacts DEF Shape
<1>2. i \in Invoices \cup {NoDraft}
  BY InvoicesOf
<1>3. PICK new \in DeskRecord :
         /\ new = [a EXCEPT !.draft = i]
         /\ new.draft = i /\ new.batch = a.batch /\ new.sigs = a.sigs
         /\ new.ledger = a.ledger /\ new.booked = a.booked
  BY <1>2, DraftFacts
<1>4. Plus(desk.ledger, {}) = desk.ledger
  BY PlusNothing DEF Shape, DeskRecord
<1>5. new.ledger = desk.ledger /\ new.batch = desk.batch /\ new.sigs = desk.sigs /\ new.booked = desk.booked
  BY <1>1, <1>3
<1>6. Fair({}, s, new, f)
  BY <1>3, <1>4, <1>5 DEF Fair, Shape
<1>7. ASSUME Apart PROVE Pays({}, s, new, f)
  BY <1>5, <1>7 DEF Pays, Apart, Blank
<1>8. new = [Attempted(desk, s) EXCEPT !.draft = i]
  BY <1>1, <1>3
<1> QED
  BY <1>5, <1>6, <1>7, <1>8

\* A sheet is opened, with the rows that could not be read at its end.
LEMMA SheetRun ==
    ASSUME Shape, NEW s \in Uploads, NEW read \in SUBSET (s \ Unreadable), read # {}, NEW f \in Nat
    PROVE  \E new : /\ new = [Attempted(desk, s) EXCEPT
                                 !.batch = SetToSeq(read) \o SetToSeq(s \ read)]
                    /\ new.booked = desk.booked
                    /\ Fair({}, s, new, f) /\ (Apart => Pays({}, s, new, f))
<1>1. PICK a \in DeskRecord :
         /\ a = Attempted(desk, s)
         /\ a.draft = desk.draft /\ a.batch = desk.batch /\ a.sigs = desk.sigs
         /\ a.ledger = desk.ledger /\ a.booked = desk.booked
  BY AttemptedFacts DEF Shape
<1>2. s \subseteq Invoices /\ IsFiniteSet(s)
  BY InvoicesOf
<1>3. IsFiniteSet(read) /\ IsFiniteSet(s \ read)
  BY <1>2, FS_Subset
<1>4. PICK q \in Seq(Invoices) :
         q = SetToSeq(read) \o SetToSeq(s \ read) /\ Range(q) \subseteq s
  <2>1. /\ SetToSeq(read) \in Seq(read) /\ Range(SetToSeq(read)) \subseteq read
        /\ SetToSeq(s \ read) \in Seq(s \ read) /\ Range(SetToSeq(s \ read)) \subseteq s \ read
    BY <1>3, SeqOfFacts
  <2>2. SetToSeq(read) \in Seq(Invoices) /\ SetToSeq(s \ read) \in Seq(Invoices)
    BY <1>2, <2>1
  <2> QED
    BY <2>1, <2>2, ConcatRange
<1>5. PICK new \in DeskRecord :
         /\ new = [a EXCEPT !.batch = q]
         /\ new.draft = a.draft /\ new.batch = q /\ new.sigs = a.sigs
         /\ new.ledger = a.ledger /\ new.booked = a.booked
  BY BatchFacts
<1>6. Plus(desk.ledger, {}) = desk.ledger
  BY PlusNothing DEF Shape, DeskRecord
<1>7. /\ new.ledger = desk.ledger /\ new.draft = desk.draft /\ new.sigs = desk.sigs
      /\ new.booked = desk.booked /\ Range(new.batch) \subseteq s
  BY <1>1, <1>4, <1>5
<1>8. Fair({}, s, new, f)
  BY <1>6, <1>7 DEF Fair, Shape
<1>9. ASSUME Apart PROVE Pays({}, s, new, f)
  <2>1. ASSUME NEW t \in Uploads, Blank(t) PROVE t \cap s = {}
    BY <1>9, <2>1 DEF Apart, Blank
  <2> QED
    BY <1>7, <2>1 DEF Pays
<1>10. new = [Attempted(desk, s) EXCEPT !.batch = SetToSeq(read) \o SetToSeq(s \ read)]
  BY <1>1, <1>4, <1>5
<1> QED
  BY <1>7, <1>8, <1>9, <1>10

\* What else an upload leaves as it was.
Aside == told' = told /\ came' = came /\ claims' \subseteq Uploads

\* The time of the last attempt is a flag.
LEMMA RecentFacts ==
    ASSUME Shape, NEW p, NEW took, NEW show, NEW new, NEW f, Works(p, took, show, new, f)
    PROVE  recent' \in BOOLEAN
BY DEF Shape, Works

\* A run that does nothing, or gave up with a failure.
LEMMA AttemptedRuns ==
    ASSUME DeskInv, NEW p, NEW s \in Uploads, NEW f \in Nat, Aside,
           Works(p, {}, {}, Attempted(desk, s), f)
    PROVE  DeskInv' /\ KeepsCount
<1>1. Shape
  BY DEF DeskInv
<1>2. PICK a \in DeskRecord :
         /\ a = Attempted(desk, s)
         /\ a.draft = desk.draft /\ a.batch = desk.batch /\ a.sigs = desk.sigs
         /\ a.ledger = desk.ledger /\ a.booked = desk.booked
  BY <1>1, AttemptedFacts DEF Shape
<1>3. Fair({}, {}, a, f) /\ Pays({}, {}, a, f)
  BY <1>1, <1>2, IdleRun
<1>4. Works(p, {}, {}, a, f)
  BY <1>2
<1> QED
  BY <1>1, <1>2, <1>3, <1>4, NodeRuns, RecentFacts DEF Aside

\* An upload is submitted as it came.
LEMMA BlankRuns ==
    ASSUME DeskInv, NEW p, NEW s \in Uploads, NEW took \in SUBSET s, Fresh(s), NEW f \in Nat, Aside,
           f > 0 \/ s \subseteq Unreadable,
           Works(p, took, {}, SigKept(Ledgered(Attempted(desk, s), took), s), f)
    PROVE  DeskInv' /\ KeepsCount
<1>1. Shape
  BY DEF DeskInv
<1>2. PICK new : /\ new = SigKept(Ledgered(Attempted(desk, s), took), s)
                 /\ new.booked = desk.booked
                 /\ Fair(took, {}, new, f) /\ (Apart /\ Room => Pays(took, {}, new, f))
  BY <1>1, BlankRun
<1>3. Works(p, took, {}, new, f)
  BY <1>2
<1> QED
  BY <1>1, <1>2, <1>3, NodeRuns, RecentFacts DEF Aside

\* _invoice_submit_first
LEMMA SubmitFirstRuns ==
    ASSUME DeskInv, NEW p, NEW s \in Uploads, Fresh(s), NEW f \in Nat, Aside,
           f > 0 \/ s \subseteq Unreadable, SubmitFirst(p, s, f)
    PROVE  DeskInv' /\ KeepsCount
<1>1. f + 1 \in Nat
  OBVIOUS
<1> QED
  BY <1>1, BlankRuns, AttemptedRuns DEF SubmitFirst

\* _invoice_extract_then_route_single
LEMMA ExtractSingleRuns ==
    ASSUME DeskInv, NEW p, NEW s \in Uploads, Fresh(s), NEW f \in Nat, Aside, ExtractSingle(p, s, f)
    PROVE  DeskInv' /\ KeepsCount
<1>1. f + 1 \in Nat /\ f + 1 > 0 /\ Shape
  BY DEF DeskInv
<1>2. CASE NotReceived(p, s, f)
  BY <1>1, <1>2, AttemptedRuns DEF NotReceived
<1>3. ASSUME NEW i \in s \ Unreadable, Works(p, {}, s, [Attempted(desk, s) EXCEPT !.draft = i], f)
      PROVE  DeskInv' /\ KeepsCount
  <2>1. PICK new : /\ new = [Attempted(desk, s) EXCEPT !.draft = i]
                   /\ new.booked = desk.booked
                   /\ Fair({}, s, new, f) /\ (Apart => Pays({}, s, new, f))
    BY <1>1, CardRun
  <2>2. Works(p, {}, s, new, f)
    BY <1>3, <2>1
  <2> QED
    BY <1>1, <2>1, <2>2, NodeRuns, RecentFacts DEF Aside
<1>4. CASE s \subseteq Unreadable /\ SubmitFirst(p, s, f)
  BY <1>4, SubmitFirstRuns
<1>5. CASE SubmitFirst(p, s, f + 1)
  BY <1>1, <1>5, SubmitFirstRuns
<1> QED
  BY <1>2, <1>3, <1>4, <1>5 DEF ExtractSingle

\* Everything submitted blank.
LEMMA BlankBulkRuns ==
    ASSUME DeskInv, NEW p, NEW s \in Uploads, Fresh(s), NEW f \in Nat, Aside,
           f > 0 \/ s \subseteq Unreadable, BlankBulk(p, s, f)
    PROVE  DeskInv' /\ KeepsCount
<1>1. Cardinality(s) \in Nat
  BY InvoicesOf, FS_CardinalityType
<1>2. PICK g \in 0 .. Cardinality(s) : \E took \in Takes(s, g) :
         Works(p, took, {}, IF took = {} THEN Attempted(desk, s)
                            ELSE SigKept(Ledgered(Attempted(desk, s), took), s), f + g)
  BY DEF BlankBulk
<1>3. PICK took \in Takes(s, g) :
         Works(p, took, {}, IF took = {} THEN Attempted(desk, s)
                            ELSE SigKept(Ledgered(Attempted(desk, s), took), s), f + g)
  BY <1>2
<1>4. f + g \in Nat /\ (f + g > 0 \/ s \subseteq Unreadable) /\ took \in SUBSET s
  BY <1>1 DEF Takes
<1>5. CASE took = {}
  BY <1>3, <1>4, <1>5, AttemptedRuns
<1>6. CASE took # {}
  BY <1>3, <1>4, <1>6, BlankRuns
<1> QED
  BY <1>5, <1>6

\* _invoice_extract_then_route_bulk
LEMMA ExtractBulkRuns ==
    ASSUME DeskInv, NEW p, NEW s \in Uploads, Fresh(s), NEW f \in Nat, Aside, ExtractBulk(p, s, f)
    PROVE  DeskInv' /\ KeepsCount
<1>1. /\ Cardinality(s) \in Nat /\ IsFiniteSet(s \ Unreadable) /\ Shape /\ f + 1 \in Nat
  BY InvoicesOf, FS_CardinalityType, FS_Subset DEF DeskInv
<1>2. CASE NotReceived(p, s, f)
  BY <1>1, <1>2, AttemptedRuns DEF NotReceived
<1>3. ASSUME NEW g \in 0 .. Cardinality(s), NEW read \in Reads(s, g), read # {},
             Works(p, {}, s, [Attempted(desk, s) EXCEPT
                                 !.batch = SetToSeq(read) \o SetToSeq(s \ read)], f + g)
      PROVE  DeskInv' /\ KeepsCount
  <2>1. f + g \in Nat /\ read \in SUBSET (s \ Unreadable)
    BY <1>1 DEF Reads
  <2>2. PICK new : /\ new = [Attempted(desk, s) EXCEPT
                                !.batch = SetToSeq(read) \o SetToSeq(s \ read)]
                   /\ new.booked = desk.booked
                   /\ Fair({}, s, new, f + g) /\ (Apart => Pays({}, s, new, f + g))
    BY <1>1, <1>3, <2>1, SheetRun
  <2>3. Works(p, {}, s, new, f + g)
    BY <1>3, <2>2
  <2> QED
    BY <1>1, <2>2, <2>3, NodeRuns, RecentFacts DEF Aside
<1>4. ASSUME NEW g \in 0 .. Cardinality(s), {} \in Reads(s, g), BlankBulk(p, s, f + g)
      PROVE  DeskInv' /\ KeepsCount
  <2>1. f + g \in Nat
    BY <1>1
  <2>2. g > 0 \/ s \subseteq Unreadable
    <3>1. Cardinality(s \ Unreadable) - Cardinality({}) = g
      BY <1>4 DEF Reads
    <3>2. Cardinality({}) = 0 /\ Cardinality(s \ Unreadable) \in Nat
          /\ (Cardinality(s \ Unreadable) = 0 => s \ Unreadable = {})
      BY <1>1, FS_EmptySet, FS_CardinalityType
    <3> QED
      BY <1>1, <3>1, <3>2
  <2> QED
    BY <1>1, <1>4, <2>1, <2>2, BlankBulkRuns
<1> QED
  BY <1>2, <1>3, <1>4 DEF ExtractBulk

\* A run that returns with nothing done.
LEMMA QuietRuns ==
    ASSUME DeskInv, Quiet, told' = told, came' = came, claims' \subseteq Uploads, recent' \in BOOLEAN
    PROVE  DeskInv' /\ KeepsCount
<1>1. Shape /\ desk \in DeskRecord
  BY DEF DeskInv, Shape
<1>2. Fair({}, {}, desk, 0) /\ Pays({}, {}, desk, 0)
  BY <1>1, IdleRun
<1>3. Runs(<<>>, {}, {}, desk, 0)
  BY DEF Quiet, Runs
<1> QED
  BY <1>2, <1>3, NodeRuns

\* The upload handler: silenced as a repetition, or worked on.
LEMMA UploadRuns ==
    ASSUME DeskInv, NEW s \in Uploads, Upload(s)
    PROVE  DeskInv' /\ KeepsCount
<1>1. told' = told /\ came' = came
  BY DEF Upload
<1>2. CASE Quiet /\ UNCHANGED <<claims, recent>>
  BY <1>1, <1>2, QuietRuns DEF DeskInv, Shape
<1>3. ASSUME NEW f \in {0, 1}, Fresh(s), claims' = IF f = 1 THEN claims ELSE claims \cup {s},
             IF Cardinality(s) = 1 THEN ExtractSingle(<<"upload", s>>, s, f)
                                   ELSE ExtractBulk(<<"upload", s>>, s, f)
      PROVE  DeskInv' /\ KeepsCount
  <2>1. f \in Nat /\ claims' \subseteq Uploads
    BY <1>3 DEF DeskInv, Shape
  <2>2. Aside
    BY <1>1, <2>1 DEF Aside
  <2> QED
    BY <1>3, <2>1, <2>2, ExtractSingleRuns, ExtractBulkRuns
<1> QED
  BY <1>2, <1>3 DEF Upload

(* The words of the SME *)

\* Nothing is submitted or shown, whatever card or sheet is closed.
LEMMA IdleRuns ==
    ASSUME DeskInv, NEW p, NEW new \in DeskRecord, NEW f \in Nat, Runs(p, {}, {}, new, f),
           new.ledger = desk.ledger, new.sigs = desk.sigs, new.booked = desk.booked,
           new.draft \in {desk.draft, NoDraft}, Range(new.batch) \subseteq Range(desk.batch),
           UNCHANGED <<told, came, claims, recent>>
    PROVE  DeskInv' /\ KeepsCount
<1>1. Shape
  BY DEF DeskInv
<1>2. Fair({}, {}, new, f) /\ Pays({}, {}, new, f)
  BY <1>1, IdleRun
<1>3. told' = told /\ came' = came /\ claims' \subseteq Uploads /\ recent' \in BOOLEAN
  BY <1>1 DEF Shape
<1> QED
  BY <1>2, <1>3, NodeRuns

\* The node parks again as it was.
LEMMA SameRuns ==
    ASSUME DeskInv, NEW p, NEW f \in Nat, Runs(p, {}, {}, desk, f),
           UNCHANGED <<told, came, claims, recent>>
    PROVE  DeskInv' /\ KeepsCount
<1>1. desk \in DeskRecord
  BY DEF DeskInv, Shape
<1> QED
  BY <1>1, IdleRuns

\* The card is closed, and nothing else.
LEMMA NoCardFacts ==
    ASSUME Shape
    PROVE  \E a \in DeskRecord :
              /\ a = NoCard(desk) /\ a.draft = NoDraft /\ a.batch = desk.batch /\ a.last = desk.last
              /\ a.sigs = desk.sigs /\ a.ledger = desk.ledger /\ a.booked = desk.booked
<1>1. desk \in DeskRecord
  BY DEF Shape
<1>2. PICK n \in Invoices \cup {NoDraft} : n = NoDraft
  OBVIOUS
<1>3. PICK a \in DeskRecord :
         /\ a = [desk EXCEPT !.draft = n]
         /\ a.draft = n /\ a.batch = desk.batch /\ a.last = desk.last /\ a.sigs = desk.sigs
         /\ a.ledger = desk.ledger /\ a.booked = desk.booked
  BY <1>1, DraftFacts
<1>4. a = NoCard(desk)
  BY <1>2, <1>3 DEF NoCard
<1> QED
  BY <1>2, <1>3, <1>4

\* A card is closed without a submission.
LEMMA NoCardRuns ==
    ASSUME DeskInv, NEW p, NEW f \in Nat, Runs(p, {}, {}, NoCard(desk), f),
           UNCHANGED <<told, came, claims, recent>>
    PROVE  DeskInv' /\ KeepsCount
<1>1. PICK a \in DeskRecord :
         /\ a = NoCard(desk) /\ a.draft = NoDraft /\ a.batch = desk.batch
         /\ a.sigs = desk.sigs /\ a.ledger = desk.ledger /\ a.booked = desk.booked
  BY NoCardFacts DEF DeskInv
<1>2. Runs(p, {}, {}, a, f)
  BY <1>1
<1> QED
  BY <1>1, <1>2, IdleRuns

\* The run lists what it submitted, and keeps the fingerprint.
LEMMA ListedFacts ==
    ASSUME NEW a \in DeskRecord, Len(a.sigs) <= KeptSigs, NEW took, NEW s \in Uploads \cup {{}}
    PROVE  \E new \in DeskRecord :
              /\ new = SigKept(Ledgered(a, took), s)
              /\ new.draft = a.draft /\ new.batch = a.batch
              /\ new.ledger = Plus(a.ledger, took) /\ new.booked = a.booked
              /\ KeepsSigs(a, new, s)
<1>1. PICK b \in DeskRecord :
         /\ b = Ledgered(a, took)
         /\ b.draft = a.draft /\ b.batch = a.batch /\ b.last = a.last /\ b.sigs = a.sigs
         /\ b.ledger = Plus(a.ledger, took) /\ b.booked = a.booked
  BY LedgeredFacts
<1>2. Len(b.sigs) <= KeptSigs
  BY <1>1
<1>3. PICK new \in DeskRecord :
         /\ new = SigKept(b, s)
         /\ new.draft = b.draft /\ new.batch = b.batch /\ new.last = b.last
         /\ new.ledger = b.ledger /\ new.booked = b.booked
         /\ KeepsSigs(b, new, s)
  BY <1>2, SigKeptFacts
<1>4. KeepsSigs(a, new, s)
  BY <1>1, <1>3 DEF KeepsSigs
<1>5. /\ new = SigKept(Ledgered(a, took), s)
      /\ new.draft = a.draft /\ new.batch = a.batch
      /\ new.ledger = Plus(a.ledger, took) /\ new.booked = a.booked
  BY <1>1, <1>3
<1> QED
  BY <1>4, <1>5

\* What closes a card or a sheet, and submits what was on it.
LEMMA PaidRuns ==
    ASSUME DeskInv, NEW p, NEW took, NEW a \in DeskRecord, NEW f \in Nat,
           Runs(p, took, {}, SigKept(Ledgered(a, took), desk.last), f),
           a.sigs = desk.sigs, a.ledger = desk.ledger, a.booked = desk.booked,
           \/ /\ desk.draft # NoDraft /\ took = {desk.draft}
              /\ a.draft = NoDraft /\ a.batch = desk.batch
           \/ /\ took \subseteq Range(desk.batch)
              /\ a.batch = <<>> /\ a.draft = desk.draft,
           UNCHANGED <<told, came, claims, recent>>
    PROVE  DeskInv' /\ KeepsCount
<1>1. Shape /\ desk.last \in Uploads \cup {{}} /\ Range(<<>>) = {}
  <2>1. Shape /\ desk \in DeskRecord
    BY DEF DeskInv, Shape
  <2>2. desk.last \in Uploads \cup {{}}
    BY <2>1 DEF DeskRecord
  <2>3. Range(<<>>) = {}
    BY DEF Range
  <2> QED
    BY <2>1, <2>2, <2>3
<1>2. PICK h \in Uploads \cup {{}} : h = desk.last
  BY <1>1
<1>3. Len(a.sigs) <= KeptSigs
  BY <1>1 DEF Shape
<1>4. PICK new \in DeskRecord :
         /\ new = SigKept(Ledgered(a, took), h)
         /\ new.draft = a.draft /\ new.batch = a.batch
         /\ new.ledger = Plus(a.ledger, took) /\ new.booked = a.booked
         /\ KeepsSigs(a, new, h)
  BY <1>3, ListedFacts
<1>5. /\ new.ledger = Plus(desk.ledger, took) /\ new.booked = desk.booked
      /\ new.draft \in {desk.draft, NoDraft} /\ Range(new.batch) \subseteq Range(desk.batch)
      /\ Room => Range(desk.sigs) \subseteq Range(new.sigs)
  <2>1. /\ new.draft = a.draft /\ new.batch = a.batch
        /\ new.ledger = Plus(desk.ledger, took) /\ new.booked = desk.booked
    BY <1>4
  <2>2. new.draft \in {desk.draft, NoDraft} /\ Range(new.batch) \subseteq Range(desk.batch)
    <3>1. CASE a.batch = desk.batch /\ a.draft = NoDraft
      BY <2>1, <3>1
    <3>2. CASE a.batch = <<>> /\ a.draft = desk.draft
      <4>1. Range(new.batch) = {}
        BY <1>1, <2>1, <3>2
      <4> QED
        BY <2>1, <3>2, <4>1
    <3> QED
      BY <3>1, <3>2
  <2>3. Room => Range(desk.sigs) \subseteq Range(new.sigs)
    BY <1>4 DEF Room, KeepsSigs
  <2> QED
    BY <2>1, <2>2, <2>3
<1>6. \A i \in took : cards[i] > 0
  BY DEF DeskInv, ShownFirst
<1>7. Fair(took, {}, new, f)
  BY <1>4, <1>5, <1>6 DEF Fair, KeepsSigs
<1>8. ASSUME Room, CountInv PROVE Pays(took, {}, new, f)
  <2>1. ASSUME NEW s \in Uploads, NEW i \in s \cap took
        PROVE  /\ ~Blank(s)
               /\ \/ OnCard(i) /\ new.draft = NoDraft
                  \/ /\ i \in Range(desk.batch) /\ i \notin Range(new.batch)
                     /\ new.draft \in {desk.draft, NoDraft}
    <3>1. \/ (OnCard(i) /\ new.draft = NoDraft)
          \/ (i \in Range(desk.batch) /\ i \notin Range(new.batch))
      <4>1. CASE /\ desk.draft # NoDraft /\ took = {desk.draft}
                 /\ a.draft = NoDraft /\ a.batch = desk.batch
        BY <1>4, <4>1 DEF OnCard
      <4>2. CASE took \subseteq Range(desk.batch) /\ a.batch = <<>> /\ a.draft = desk.draft
        <5>1. Range(new.batch) = {}
          <6>1. new.batch = <<>>
            BY <1>4, <4>2
          <6> QED
            BY <1>1, <6>1
        <5> QED
          BY <4>2, <5>1
      <4> QED
        BY <4>1, <4>2
    <3>2. ~Blank(s)
      BY <1>8, <3>1 DEF CountInv, Counted
    <3> QED
      BY <1>5, <3>1, <3>2
  <2> QED
    BY <1>5, <1>8, <2>1 DEF Pays
<1>9. Runs(p, took, {}, new, f)
  BY <1>2, <1>4
<1>10. told' = told /\ came' = came /\ claims' \subseteq Uploads /\ recent' \in BOOLEAN
  BY <1>1 DEF Shape
<1> QED
  BY <1>5, <1>7, <1>8, <1>9, <1>10, NodeRuns

\* _invoice_submit_confirmed, and the other words about a card
LEMMA ConfirmRuns ==
    ASSUME DeskInv, NEW a, Confirm(a)
    PROVE  DeskInv' /\ KeepsCount
<1>1. desk.draft # NoDraft /\ UNCHANGED <<told, came, claims, recent>>
  BY DEF Confirm
<1>2. CASE Runs(<<a>>, {desk.draft}, {},
                SigKept(Ledgered(NoCard(desk), {desk.draft}), desk.last), 0)
  <2>1. PICK d \in DeskRecord :
           /\ d = NoCard(desk) /\ d.draft = NoDraft /\ d.batch = desk.batch
           /\ d.sigs = desk.sigs /\ d.ledger = desk.ledger /\ d.booked = desk.booked
    BY NoCardFacts DEF DeskInv
  <2>2. Runs(<<a>>, {desk.draft}, {}, SigKept(Ledgered(d, {desk.draft}), desk.last), 0)
    BY <1>2, <2>1
  <2> QED
    BY <1>1, <2>1, <2>2, PaidRuns
<1>3. CASE Runs(<<a>>, {}, {}, NoCard(desk), 1) \/ Runs(<<a>>, {}, {}, NoCard(desk), 0)
  BY <1>1, <1>3, NoCardRuns
<1>4. CASE Runs(<<a>>, {}, {}, desk, 0)
  BY <1>1, <1>4, SameRuns
<1> QED
  BY <1>2, <1>3, <1>4 DEF Confirm, SubmitConfirmed

\* The sheet is closed, and nothing else.
LEMMA ClearedFacts ==
    ASSUME Shape
    PROVE  \E a \in DeskRecord :
              /\ a = Cleared(desk) /\ a.draft = desk.draft /\ a.batch = <<>> /\ a.last = desk.last
              /\ a.sigs = desk.sigs /\ a.ledger = desk.ledger /\ a.booked = desk.booked
<1>1. PICK q \in Seq(Invoices) : q = <<>>
  <2>1. <<>> \in Seq(Invoices)
    OBVIOUS
  <2> QED
    BY <2>1, Zenon
<1>2. desk \in DeskRecord
  BY DEF Shape
<1>3. PICK a \in DeskRecord :
         /\ a = [desk EXCEPT !.batch = q]
         /\ a.draft = desk.draft /\ a.batch = q /\ a.last = desk.last /\ a.sigs = desk.sigs
         /\ a.ledger = desk.ledger /\ a.booked = desk.booked
  BY <1>2, BatchFacts
<1>4. a = Cleared(desk)
  BY <1>1, <1>3 DEF Cleared
<1> QED
  BY <1>1, <1>3, <1>4

\* A sheet is closed without a submission.
LEMMA ClearedRuns ==
    ASSUME DeskInv, NEW p, NEW f \in Nat, Runs(p, {}, {}, Cleared(desk), f),
           UNCHANGED <<told, came, claims, recent>>
    PROVE  DeskInv' /\ KeepsCount
<1>1. PICK a \in DeskRecord :
         /\ a = Cleared(desk) /\ a.draft = desk.draft /\ a.batch = <<>>
         /\ a.sigs = desk.sigs /\ a.ledger = desk.ledger /\ a.booked = desk.booked
  BY ClearedFacts DEF DeskInv
<1>2. Runs(p, {}, {}, a, f) /\ Range(a.batch) \subseteq Range(desk.batch)
  BY <1>1 DEF Range
<1> QED
  BY <1>1, <1>2, IdleRuns

\* _invoice_batch_submit_all
LEMMA SubmitAllRuns ==
    ASSUME DeskInv, NEW p, NEW rows, rows \subseteq Range(desk.batch), SubmitAll(p, rows),
           UNCHANGED <<told, came, claims, recent>>
    PROVE  DeskInv' /\ KeepsCount
<1>1. CASE Runs(p, {}, {}, Cleared(desk), 1)
  BY <1>1, ClearedRuns
<1>2. ASSUME NEW g \in 0 .. Cardinality(rows), NEW took \in Takes(rows, g),
             Runs(p, took, {}, SigKept(Ledgered(Cleared(desk), took), desk.last), g)
      PROVE  DeskInv' /\ KeepsCount
  <2>1. g \in Nat /\ took \subseteq Range(desk.batch)
    BY DEF Takes
  <2>2. PICK d \in DeskRecord :
           /\ d = Cleared(desk) /\ d.draft = desk.draft /\ d.batch = <<>>
           /\ d.sigs = desk.sigs /\ d.ledger = desk.ledger /\ d.booked = desk.booked
    BY ClearedFacts DEF DeskInv
  <2>3. Runs(p, took, {}, SigKept(Ledgered(d, took), desk.last), g)
    BY <1>2, <2>2
  <2> QED
    BY <2>1, <2>2, <2>3, PaidRuns
<1> QED
  BY <1>1, <1>2 DEF SubmitAll

\* The words about the whole sheet.
LEMMA BatchActionRuns ==
    ASSUME DeskInv, NEW a, BatchAction(a)
    PROVE  DeskInv' /\ KeepsCount
<1>1. UNCHANGED <<told, came, claims, recent>>
      /\ (SubmitAll(<<a>>, Range(desk.batch)) \/ Runs(<<a>>, {}, {}, Cleared(desk), 0))
  BY DEF BatchAction
<1> QED
  BY <1>1, SubmitAllRuns, ClearedRuns

\* A sheet without one of its rows.
LEMMA RemoveRowFacts ==
    ASSUME NEW q \in Seq(Invoices), NEW n \in DOMAIN q
    PROVE  RemoveRow(q, n) \in Seq(Invoices) /\ Range(RemoveRow(q, n)) \subseteq Range(q)
<1>1. PICK l \in Nat : l = Len(q) /\ l > 0 /\ DOMAIN q = 1 .. l
  OBVIOUS
<1>2. ASSUME NEW r \in 1 .. l - 1 PROVE (IF r < n THEN q[r] ELSE q[r + 1]) \in Range(q)
  BY <1>1 DEF Range
<1>3. Range(q) \subseteq Invoices
  BY InvoicesOf
<1>4. RemoveRow(q, n) \in [1 .. l - 1 -> Range(q)]
  BY <1>1, <1>2 DEF RemoveRow
<1>5. RemoveRow(q, n) \in Seq(Invoices)
  BY <1>1, <1>3, <1>4
<1> QED
  BY <1>4, <1>5 DEF Range

\* _remove_batch_row
LEMMA BatchRemoveRuns ==
    ASSUME DeskInv, NEW n, BatchRemove(n)
    PROVE  DeskInv' /\ KeepsCount
<1>1. Shape /\ desk \in DeskRecord /\ desk.batch \in Seq(Invoices)
  BY DEF DeskInv, Shape, DeskRecord
<1>2. UNCHANGED <<told, came, claims, recent>>
      /\ Runs(<<"remove", n>>, {}, {},
              [desk EXCEPT !.batch = IF n \in Rows THEN RemoveRow(@, n) ELSE @], 0)
  BY DEF BatchRemove
<1>3. PICK q \in Seq(Invoices) :
         /\ q = (IF n \in Rows THEN RemoveRow(desk.batch, n) ELSE desk.batch)
         /\ Range(q) \subseteq Range(desk.batch)
  BY <1>1, RemoveRowFacts DEF Rows
<1>4. PICK new \in DeskRecord :
         /\ new = [desk EXCEPT !.batch = q]
         /\ new.draft = desk.draft /\ new.batch = q /\ new.sigs = desk.sigs
         /\ new.ledger = desk.ledger /\ new.booked = desk.booked
  BY <1>1, BatchFacts
<1>5. Runs(<<"remove", n>>, {}, {}, new, 0)
  BY <1>2, <1>3, <1>4
<1> QED
  BY <1>2, <1>3, <1>4, <1>5, IdleRuns

\* _handle_edited_csv
LEMMA EditedSheetRuns ==
    ASSUME DeskInv, NEW rows, EditedSheet(rows)
    PROVE  DeskInv' /\ KeepsCount
<1>1. rows \subseteq Rows /\ UNCHANGED <<told, came, claims, recent>>
      /\ \/ Runs(<<"sheet", rows>>, {}, {}, desk, 0)
         \/ SubmitAll(<<"sheet", rows>>, {desk.batch[r] : r \in rows})
  BY DEF EditedSheet
<1>2. {desk.batch[r] : r \in rows} \subseteq Range(desk.batch)
  BY <1>1 DEF Rows, Range
<1> QED
  BY <1>1, <1>2, SameRuns, SubmitAllRuns

(* Webhooks, the other runs of the node, and time *)

\* A webhook that is booked is told, and adds no failure.
LEMMA BookedReturns ==
    ASSUME DeskInv, NEW e \in Events, Returns({}, {}, Booked(e), 0), Tells(e),
           came' \in [Events -> 0 .. MaxEvents], claims' \subseteq Uploads, recent' \in BOOLEAN
    PROVE  DeskInv' /\ KeepsCount
<1>1. Shape
  BY DEF DeskInv
<1>2. PICK d \in DeskRecord :
         /\ d = Booked(e)
         /\ d.draft = desk.draft /\ d.batch = desk.batch /\ d.last = desk.last
         /\ d.sigs = desk.sigs /\ d.ledger = desk.ledger
         /\ d.booked[e] = desk.booked[e] + (IF e = "due" THEN 0 ELSE 1)
         /\ \A x \in Events \ {e} : d.booked[x] = desk.booked[x]
  BY <1>1, BookedFacts
<1>3. Returns({}, {}, d, 0)
  BY <1>2
<1>4. Fair({}, {}, d, 0) /\ Pays({}, {}, d, 0)
  BY <1>1, <1>2, IdleRun
<1>5. PICK t \in [Events -> Nat] : t = told
  BY <1>1 DEF Shape
<1>6. /\ told' = [t EXCEPT ![e] = t[e] + 1] /\ faults \in Nat
      /\ desk.booked \in [Events -> Nat]
  BY <1>1, <1>5, DeskBounds DEF Tells, Shape, DeskRecord
<1>7. /\ told' \in [Events -> Nat] /\ told'[e] = t[e] + 1
      /\ \A x \in Events \ {e} : told'[x] = t[x]
  BY <1>6
<1>8. desk' = d /\ faults' = faults
  BY <1>3, <1>6 DEF Returns
<1>9. ASSUME NEW x \in Events \ {"due"}
      PROVE  desk'.booked[x] <= told'[x] /\ told'[x] <= desk'.booked[x] + faults'
  <2>1. PICK b \in Nat, n \in Nat :
           b = desk.booked[x] /\ n = t[x] /\ b <= n /\ n <= b + faults
    BY <1>5, <1>6 DEF DeskInv, MoneyTold
  <2>2. CASE x = e
    <3>1. d.booked[x] = b + 1 /\ told'[x] = n + 1
      BY <1>2, <1>7, <2>1, <2>2
    <3> QED
      BY <1>6, <1>8, <2>1, <3>1
  <2>3. CASE x # e
    <3>1. d.booked[x] = b /\ told'[x] = n
      BY <1>2, <1>7, <2>1, <2>3
    <3> QED
      BY <1>8, <2>1, <3>1
  <2> QED
    BY <2>2, <2>3
<1>10. MoneyTold'
  BY <1>9 DEF MoneyTold
<1>11. DeskInv'
  BY <1>3, <1>4, <1>7, <1>10, DeskReturns
<1>12. KeepsCount
  BY <1>1, <1>3, <1>4, CountReturns DEF KeepsCount
<1> QED
  BY <1>11, <1>12

\* _apply_phase1b_event_to_state
LEMMA EventRuns ==
    ASSUME DeskInv, NEW e \in Events, Phase1bEvent(e)
    PROVE  DeskInv' /\ KeepsCount
<1>1. Shape /\ told \in [Events -> Nat] /\ came \in [Events -> 0 .. MaxEvents] /\ MaxEvents \in Nat
  BY DeskBounds DEF DeskInv, Shape
<1>2. claims' \subseteq Uploads /\ recent' \in BOOLEAN
  BY <1>1 DEF Phase1bEvent, Shape
<1>3. came' \in [Events -> 0 .. MaxEvents]
  <2>1. came' = came \/ (came[e] < MaxEvents /\ came' = [came EXCEPT ![e] = came[e] + 1])
    BY DEF Phase1bEvent
  <2>2. ASSUME came[e] < MaxEvents PROVE came[e] + 1 \in 0 .. MaxEvents
    BY <1>1, <2>2
  <2> QED
    BY <1>1, <2>1, <2>2
<1>4. CASE Returns({}, {}, Booked(e), 0) /\ Tells(e)
  BY <1>2, <1>3, <1>4, BookedReturns
<1>5. ASSUME Raises(<<"event", e>>, {}, {}, 0), Tells(e) \/ UNCHANGED told
      PROVE  DeskInv' /\ KeepsCount
  <2>1. told' \in [Events -> Nat] /\ \A x \in Events : told'[x] \in {told[x], told[x] + 1}
    <3>1. CASE UNCHANGED told
      BY <1>1, <3>1
    <3>2. CASE Tells(e)
      BY <1>1, <3>2 DEF Tells
    <3> QED
      BY <1>5, <3>1, <3>2
  <2>2. DeskInv'
    BY <1>2, <1>3, <1>5, <2>1, DeskRaises
  <2>3. KeepsCount
    BY <1>1, <1>5, CountRaises DEF KeepsCount
  <2> QED
    BY <2>2, <2>3
<1> QED
  BY <1>4, <1>5 DEF Phase1bEvent

\* A step that leaves the node, its effects and the failures alone.
LEMMA RestRuns ==
    ASSUME DeskInv, UNCHANGED <<desk, lodged, cards, told, came, faults>>,
           claims' \subseteq Uploads, recent' \in BOOLEAN
    PROVE  DeskInv' /\ KeepsCount
<1>1. Shape' /\ ShownFirst' /\ NotUnseen' /\ LedgerBacked' /\ MoneyTold'
  BY DEF DeskInv, Shape, ShownFirst, NotUnseen, LedgerBacked, MoneyTold
<1>2. ASSUME CountInv PROVE CountInv'
  BY <1>2 DEF CountInv, Counted, Open, OnCard, Blank
<1> QED
  BY <1>1, <1>2 DEF DeskInv, KeepsCount

\* Every step keeps DeskInv, and keeps count.
LEMMA StepKeeps ==
    ASSUME DeskInv, [Next]_vars
    PROVE  DeskInv' /\ KeepsCount
<1>1. claims \subseteq Uploads /\ recent \in BOOLEAN
  BY DEF DeskInv, Shape
<1>2. CASE UNCHANGED vars
  BY <1>1, <1>2, RestRuns DEF vars
<1>3. ASSUME NEW s \in Uploads, ClaimExpires(s) PROVE DeskInv' /\ KeepsCount
  <2>1. /\ UNCHANGED <<desk, lodged, cards, told, came, faults>>
        /\ claims' \subseteq Uploads /\ recent' \in BOOLEAN
    BY <1>1, <1>3 DEF ClaimExpires
  <2> QED
    BY <2>1, RestRuns
<1>4. CASE WindowPasses
  <2>1. /\ UNCHANGED <<desk, lodged, cards, told, came, faults>>
        /\ claims' \subseteq Uploads /\ recent' \in BOOLEAN
    BY <1>1, <1>4 DEF WindowPasses
  <2> QED
    BY <2>1, RestRuns
<1>5. CASE Chat
  <2>1. Quiet /\ told' = told /\ came' = came /\ claims' \subseteq Uploads /\ recent' \in BOOLEAN
    BY <1>1, <1>5 DEF Chat
  <2> QED
    BY <2>1, QuietRuns
<1>6. CASE Asks
  <2>1. PICK f \in {0, 1} : /\ Runs(<<"ask">>, {}, {}, desk, f)
                            /\ UNCHANGED <<told, came, claims, recent>>
    BY <1>6 DEF Asks
  <2>2. f \in Nat
    OBVIOUS
  <2> QED
    BY <2>1, <2>2, SameRuns
<1>7. CASE BatchEdit
  BY <1>7, SameRuns DEF BatchEdit
<1> QED
  BY <1>2, <1>3, <1>4, <1>5, <1>6, <1>7, UploadRuns, ConfirmRuns, BatchActionRuns,
     BatchRemoveRuns, EditedSheetRuns, EventRuns DEF Next

\* A new line has submitted, shown and told nothing.
LEMMA DeskInit == Init => DeskInv /\ CountInv
<1> SUFFICES ASSUME Init PROVE DeskInv /\ CountInv
  OBVIOUS
<1>1. /\ desk = NewDesk /\ faults = 0 /\ claims = {} /\ recent = FALSE
      /\ lodged = Zero(Invoices) /\ cards = Zero(Invoices)
      /\ told = Zero(Events) /\ came = Zero(Events)
  BY DEF Init
<1>2. \A S : /\ Zero(S) \in [S -> {0}]
             /\ \A x \in S : Zero(S)[x] = 0
  BY DEF Zero
<1>3. KeptSigs \in Nat \ {0} /\ MaxFaults \in Nat /\ MaxEvents \in Nat
  BY DeskBounds
<1>4. PICK l \in [Invoices -> Nat], b \in [Events -> Nat] : l = Zero(Invoices) /\ b = Zero(Events)
  BY <1>2
<1>5. /\ desk.draft = NoDraft /\ desk.batch = <<>> /\ desk.last = {} /\ desk.sigs = <<>>
      /\ desk.ledger = l /\ desk.booked = b /\ desk.outstanding = FALSE /\ desk \in DeskRecord
  BY <1>1, <1>4 DEF NewDesk, DeskRecord
<1>6. Range(<<>>) = {} /\ Len(<<>>) = 0
  BY DEF Range
<1>7. Shape
  <2>1. Len(desk.sigs) <= KeptSigs
    BY <1>3, <1>5, <1>6
  <2>2. lodged \in [Invoices -> Nat] /\ cards \in [Invoices -> Nat] /\ told \in [Events -> Nat]
    BY <1>1, <1>4
  <2>3. came \in [Events -> 0 .. MaxEvents]
    BY <1>1, <1>2, <1>3
  <2>4. faults \in 0 .. MaxFaults
    BY <1>1, <1>3
  <2> QED
    BY <1>1, <1>5, <2>1, <2>2, <2>3, <2>4 DEF Shape
<1>8. ShownFirst
  BY <1>5, <1>6 DEF ShownFirst
<1>9. \A i \in Invoices : lodged[i] = 0 /\ cards[i] = 0 /\ desk.ledger[i] = 0
  BY <1>1, <1>2, <1>4, <1>5
<1>10. NotUnseen /\ LedgerBacked
  BY <1>1, <1>9 DEF NotUnseen, LedgerBacked
<1>11. MoneyTold
  BY <1>1, <1>2, <1>4, <1>5 DEF MoneyTold
<1>12. ASSUME NEW s \in Uploads, NEW i \in s PROVE Counted(s, i)
  <2>1. lodged[i] = 0 /\ cards[i] = 0
    BY <1>9, InvoicesOf
  <2>2. ~OnCard(i) /\ i \notin Range(desk.batch) /\ desk.sigs = <<>>
    BY <1>5, <1>6 DEF OnCard
  <2> QED
    BY <1>1, <1>6, <2>1, <2>2 DEF Counted, Open
<1> QED
  BY <1>7, <1>8, <1>10, <1>11, <1>12 DEF DeskInv, CountInv

\* DeskInv is an invariant of the invoice desk (invoice_collect_await).
THEOREM DeskCorrect == Spec => []DeskInv
<1>1. Init => DeskInv
  BY DeskInit
<1>2. DeskInv /\ [Next]_vars => DeskInv'
  BY StepKeeps
<1> QED
  BY <1>1, <1>2, PTL DEF Spec

\* LedgerInv: types, and the run's own list is the backend's but for failures.
THEOREM LedgerCorrect == Spec => []LedgerInv
<1>1. DeskInv => LedgerInv
  <2> SUFFICES ASSUME DeskInv PROVE LedgerInv
    OBVIOUS
  <2>1. /\ desk \in DeskRecord /\ Len(desk.sigs) <= KeptSigs
        /\ lodged \in [Invoices -> Nat] /\ cards \in [Invoices -> Nat]
        /\ told \in [Events -> Nat] /\ came \in [Events -> 0 .. MaxEvents]
        /\ claims \subseteq Uploads /\ recent \in BOOLEAN /\ faults \in 0 .. MaxFaults
    BY DEF DeskInv, Shape
  <2>2. /\ desk.draft \in Invoices \cup {NoDraft} /\ desk.batch \in Seq(Invoices)
        /\ desk.last \in Uploads \cup {{}} /\ desk.sigs \in Seq(Uploads)
        /\ desk.ledger \in [Invoices -> Nat] /\ desk.booked \in [Events -> Nat]
        /\ desk.outstanding \in BOOLEAN
    BY <2>1 DEF DeskRecord
  <2>3. Range(desk.batch) \subseteq Invoices /\ Range(desk.sigs) \subseteq Uploads
    BY <2>2 DEF Range
  <2>4. TypeOK
    BY <2>1, <2>2, <2>3 DEF TypeOK
  <2> QED
    BY <2>4 DEF LedgerInv, DeskInv
<1> QED
  BY <1>1, DeskCorrect, PTL

\* NotUnseen: what could be read was shown before it was submitted.
THEOREM UnseenCorrect == Spec => []NotUnseen
<1>1. DeskInv => NotUnseen
  BY DEF DeskInv
<1> QED
  BY <1>1, DeskCorrect, PTL

\* MoneyTold: a booking was announced, and announced once but for failures.
THEOREM MoneyCorrect == Spec => []MoneyTold
<1>1. DeskInv => MoneyTold
  BY DEF DeskInv
<1> QED
  BY <1>1, DeskCorrect, PTL

\* What is counted bounds what is submitted.
LEMMA CountedOnce == Shape /\ CountInv => LodgedOnce
<1> SUFFICES ASSUME Shape, CountInv, NEW i \in Invoices
             PROVE  lodged[i] <= Most(1, cards[i]) + faults
  BY DEF LodgedOnce
<1>1. PICK s \in Uploads : i \in s
  BY DEF Invoices
<1>2. Counted(s, i)
  BY <1>1 DEF CountInv
<1>3. lodged[i] \in Nat /\ cards[i] \in Nat /\ faults \in Nat /\ Open(i) \in Nat
  <2>1. Open(i) \in Nat
    BY DEF Open
  <2> QED
    BY <2>1, DeskBounds DEF Shape
<1> DEFINE l == lodged[i] c == cards[i] f == faults
<1>4. l <= 1 + f \/ l <= c + f
  BY <1>2, <1>3 DEF Counted
<1>5. l <= (IF 1 > c THEN 1 ELSE c) + f
  BY <1>3, <1>4
<1> QED
  BY <1>5 DEF Most

\* LodgedOnce, while the fingerprints kept are fewer than their bound.
THEOREM LodgedCorrect ==
    ASSUME Apart
    PROVE  Spec /\ []Room => []LodgedOnce
<1>1. Init => CountInv
  BY DeskInit
<1>2. DeskInv /\ Room /\ CountInv /\ [Next]_vars => CountInv'
  BY StepKeeps DEF KeepsCount
<1>3. DeskInv /\ CountInv => LodgedOnce
  BY CountedOnce DEF DeskInv
<1> QED
  BY <1>1, <1>2, <1>3, DeskCorrect, PTL DEF Spec

=============================================================================
