------------------------ MODULE LoyaltyLedgerProofs ------------------------
(* The ledger's invariants, proved for any accounts, requests, callers,    *)
(* sweepers, lifetimes and bounds.                                         *)
EXTENDS LoyaltyLedger, UnitSumsProofs

(***************************************************************************)
(* The inductive invariant.  Solvency alone is not inductive: a sweep      *)
(* charges what its cursor has seen, so the proof must know that a lot     *)
(* never grows after the cursor has read it, and that it only reads lots.  *)
(***************************************************************************)
CursorOK ==
  \A w \in Sweepers : \A i \in Rows(w) :
    /\ ledger[i].kind \in CreditKinds
    /\ remaining[i] <= sweep[w].seen[i]

IInv == TypeOK /\ CursorOK /\ OneEntryPerKey /\ Solvent /\ BooksBalance

-----------------------------------------------------------------------------
(* Appending entries.                                                      *)

LotsIn(l, a) == {i \in 1..Len(l) : l[i].acct = a /\ l[i].kind \in CreditKinds}

LEMMA LotsFinite ==
  ASSUME NEW l \in Seq(Entry), NEW a
  PROVE  IsFiniteSet(LotsIn(l, a)) /\ LotsIn(l, a) \subseteq 1..Len(l)
<1>1. IsFiniteSet(1..Len(l))
  BY FS_Interval
<1> QED
  BY <1>1, FS_Subset DEF LotsIn

(* The remaining column after an append. *)
Extended(n, kept, m, rs) == [i \in 1..n + m |-> IF i <= n THEN kept[i] ELSE rs[i - n]]

LEMMA AppendFacts ==
  ASSUME NEW l \in Seq(Entry), NEW es \in Seq(Entry),
         NEW kept \in [1..Len(l) -> Nat], NEW rs \in [1..Len(es) -> Nat]
  PROVE  /\ l \o es \in Seq(Entry)
         /\ Len(l \o es) = Len(l) + Len(es)
         /\ \A i \in 1..Len(l) : (l \o es)[i] = l[i]
         /\ \A k \in 1..Len(es) : (l \o es)[Len(l) + k] = es[k]
         /\ Extended(Len(l), kept, Len(es), rs) \in [1..Len(l \o es) -> Nat]
         /\ \A i \in 1..Len(l) : Extended(Len(l), kept, Len(es), rs)[i] = kept[i]
         /\ \A k \in 1..Len(es) :
              Extended(Len(l), kept, Len(es), rs)[Len(l) + k] = rs[k]
<1>1. Len(l) \in Nat /\ Len(es) \in Nat
  OBVIOUS
<1>2. l \o es \in Seq(Entry) /\ Len(l \o es) = Len(l) + Len(es)
  OBVIOUS
<1>3. \A i \in 1..Len(l) : (l \o es)[i] = l[i]
  OBVIOUS
<1>4. \A k \in 1..Len(es) : (l \o es)[Len(l) + k] = es[k]
  OBVIOUS
<1>5. Extended(Len(l), kept, Len(es), rs) \in [1..Len(l) + Len(es) -> Nat]
  BY <1>1 DEF Extended
<1>6. \A i \in 1..Len(l) : Extended(Len(l), kept, Len(es), rs)[i] = kept[i]
  BY <1>1 DEF Extended
<1>7. \A k \in 1..Len(es) : Extended(Len(l), kept, Len(es), rs)[Len(l) + k] = rs[k]
  BY <1>1 DEF Extended
<1> QED
  BY <1>2, <1>3, <1>4, <1>5, <1>6, <1>7

(* A sum that the provers match as a term, not as arithmetic.              *)
Plus(x, y) == x + y

(* The entries es, holding rs, open one lot on account a, of n units.       *)
OpensLot(es, rs, a, n) == \E k \in 1..Len(es) : LotsIn(es, a) = {k} /\ n = rs[k]

(* Open credit after an append: what the old lots keep, and what the one   *)
(* new lot of the account holds, if there is one.                          *)
LEMMA OpenAfterAppend ==
  ASSUME NEW l \in Seq(Entry), NEW es \in Seq(Entry),
         NEW kept \in [1..Len(l) -> Nat], NEW rs \in [1..Len(es) -> Nat],
         NEW a
  PROVE  /\ LotsIn(es, a) = {} =>
              Sum(LotsIn(l \o es, a), Extended(Len(l), kept, Len(es), rs))
                = Sum(LotsIn(l, a), kept)
         /\ \A n : OpensLot(es, rs, a, n) =>
              Sum(LotsIn(l \o es, a), Extended(Len(l), kept, Len(es), rs))
                = Plus(Sum(LotsIn(l, a), kept), n)
<1> DEFINE r == Extended(Len(l), kept, Len(es), rs)
           L == Len(l)
           new == {i \in L + 1..L + Len(es) : i - L \in LotsIn(es, a)}
<1>1. /\ l \o es \in Seq(Entry)
      /\ Len(l \o es) = L + Len(es)
      /\ \A i \in 1..L : (l \o es)[i] = l[i]
      /\ \A k \in 1..Len(es) : (l \o es)[L + k] = es[k]
      /\ r \in [1..Len(l \o es) -> Nat]
      /\ \A i \in 1..L : r[i] = kept[i]
      /\ \A k \in 1..Len(es) : r[L + k] = rs[k]
  BY AppendFacts, SMTT(20)
<1>2. L \in Nat /\ Len(es) \in Nat
  OBVIOUS
<1> HIDE DEF r, L
<1>3. \A i \in L + 1..L + Len(es) : i - L \in 1..Len(es) /\ i = L + (i - L)
  BY <1>2
<1>4. LotsIn(l \o es, a) = LotsIn(l, a) \cup new
  <2>1. ASSUME NEW i \in 1..L + Len(es)
        PROVE  i \in LotsIn(l \o es, a) <=> i \in LotsIn(l, a) \cup new
    <3>1. CASE i \in 1..L
      <4>1. i \notin new
        BY <3>1, <1>2
      <4>2. (l \o es)[i] = l[i]
        BY <3>1, <1>1
      <4> QED
        BY <3>1, <4>1, <4>2, <1>1 DEF LotsIn, L
    <3>2. CASE i \in L + 1..L + Len(es)
      <4>1. i \notin 1..L
        BY <3>2, <1>2
      <4>2. (l \o es)[i] = es[i - L]
        BY <3>2, <1>1, <1>3
      <4> QED
        BY <3>2, <4>1, <4>2, <1>1, <1>3 DEF LotsIn, L
    <3> QED
      BY <3>1, <3>2, <1>2
  <2>2. LotsIn(l \o es, a) \subseteq 1..L + Len(es)
    BY <1>1 DEF LotsIn
  <2>3. LotsIn(l, a) \cup new \subseteq 1..L + Len(es)
    BY <1>2 DEF LotsIn, L
  <2> QED
    BY <2>1, <2>2, <2>3
<1>5. IsFiniteSet(LotsIn(l, a)) /\ LotsIn(l, a) \subseteq 1..L
  BY LotsFinite DEF L
<1>6. IsFiniteSet(new) /\ LotsIn(l, a) \cap new = {}
  <2>1. IsFiniteSet(L + 1..L + Len(es))
    BY <1>2, FS_Interval
  <2>2. LotsIn(l, a) \cap new = {}
    BY <1>2, <1>5
  <2> QED
    BY <2>1, <2>2, FS_Subset
<1>7. \A i \in LotsIn(l, a) \cup new : r[i] \in Nat
  BY <1>1, <1>4 DEF LotsIn
<1>8. Sum(LotsIn(l \o es, a), r) = Sum(LotsIn(l, a), r) + Sum(new, r)
  BY <1>4, <1>5, <1>6, <1>7, SumDisjoint
<1>9. Sum(LotsIn(l, a), r) = Sum(LotsIn(l, a), kept)
  BY <1>1, <1>5, SumExtensional
<1>10. Sum(LotsIn(l, a), kept) \in Nat
  <2>1. \A i \in LotsIn(l, a) : kept[i] \in Nat
    BY <1>5 DEF L
  <2> QED
    BY <2>1, <1>5, SumNat
<1>11. ASSUME LotsIn(es, a) = {} PROVE Sum(new, r) = 0
  <2>1. new = {}
    BY <1>11
  <2> QED
    BY <2>1, SumEmpty
<1>12. ASSUME NEW n, OpensLot(es, rs, a, n) PROVE Sum(new, r) = n
  <2>0. PICK k \in 1..Len(es) : LotsIn(es, a) = {k} /\ n = rs[k]
    BY <1>12 DEF OpensLot
  <2>1. new = {L + k}
    BY <2>0, <1>2
  <2>2. r[L + k] = rs[k] /\ rs[k] \in Nat
    BY <1>1
  <2> QED
    BY <2>0, <2>1, <2>2, SumSingleton
<1> QED
  <2>1. ASSUME LotsIn(es, a) = {}
        PROVE  Sum(LotsIn(l \o es, a), r) = Sum(LotsIn(l, a), kept)
    BY <1>8, <1>9, <1>10, <1>11, <2>1
  <2>2. ASSUME NEW n, OpensLot(es, rs, a, n)
        PROVE  Sum(LotsIn(l \o es, a), r) = Plus(Sum(LotsIn(l, a), kept), n)
    BY <1>8, <1>9, <1>10, <1>12, <2>2 DEF Plus
  <2> QED
    BY <2>1, <2>2 DEF r, L

-----------------------------------------------------------------------------
(* The cached next expiry date is well defined.                            *)

LEMMA NextExpiryDefined ==
  ASSUME NEW l \in Seq(Entry), NEW r \in [1..Len(l) -> Nat], NEW a
  PROVE  NextExpiry(l, r, a) \in Nat /\ IsNextExpiry(l, r, a, NextExpiry(l, r, a))
<1> DEFINE D == {l[i].expires : i \in 1..Len(l)} \cup {Never}
           open == {i \in 1..Len(l) : l[i].acct = a /\ r[i] > 0}
           O == {l[i].expires : i \in open}
<1>1. ASSUME NEW i \in 1..Len(l) PROVE l[i].expires \in Nat
  <2>1. l[i] \in Entry
    OBVIOUS
  <2> QED
    BY <2>1 DEF Entry
<1>2. D \subseteq Nat
  BY <1>1, TimeAssumption
<1>3. \E t \in D : IsNextExpiry(l, r, a, t)
  <2>1. CASE open = {}
    BY <2>1 DEF IsNextExpiry
  <2>2. CASE open # {}
    <3>1. O \in SUBSET Nat /\ O # {}
      BY <2>2, <1>1
    <3>2. PICK m \in O : \A x \in O : m <= x
      BY <3>1, LeastNat
    <3>3. \A i \in open : m <= l[i].expires
      BY <3>2
    <3>4. \E i \in open : l[i].expires = m
      BY <3>2
    <3>5. m \in D
      BY <3>4
    <3> QED
      BY <3>3, <3>4, <3>5 DEF IsNextExpiry
  <2> QED
    BY <2>1, <2>2
<1>4. NextExpiry(l, r, a) \in D /\ IsNextExpiry(l, r, a, NextExpiry(l, r, a))
  BY <1>3 DEF NextExpiry
<1> QED
  BY <1>2, <1>4

(* What Write does to the ledger, its mutable column and the caches.       *)
LEMMA WriteFacts ==
  ASSUME TypeOK,
         NEW es \in Seq(Entry), NEW rs \in [1..Len(es) -> Nat],
         NEW kept \in [Entries -> Nat], NEW A \in SUBSET Accounts,
         Write(es, rs, kept, A)
  PROVE  /\ ledger' = ledger \o es
         /\ remaining' = Extended(Len(ledger), kept, Len(es), rs)
         /\ ledger' \in Seq(Entry)
         /\ Entries' = 1..Len(ledger) + Len(es)
         /\ Entries \subseteq Entries'
         /\ \A i \in Entries : ledger'[i] = ledger[i] /\ remaining'[i] = kept[i]
         /\ \A k \in 1..Len(es) : /\ ledger'[Len(ledger) + k] = es[k]
                                  /\ remaining'[Len(ledger) + k] = rs[k]
         /\ \A i \in Entries' \ Entries :
              i - Len(ledger) \in 1..Len(es) /\ i = Len(ledger) + (i - Len(ledger))
         /\ remaining' \in [Entries' -> Nat]
         /\ nextExpiry' \in [Accounts -> Nat]
<1>1. ledger \in Seq(Entry) /\ Len(ledger) \in Nat /\ Len(es) \in Nat
  BY DEF TypeOK
<1>2. ledger' = ledger \o es
  BY DEF Write
<1>3. remaining' = Extended(Len(ledger), kept, Len(es), rs)
  BY DEF Write, Extended
<1>4. /\ ledger' \in Seq(Entry)
      /\ Len(ledger') = Len(ledger) + Len(es)
      /\ \A i \in 1..Len(ledger) : ledger'[i] = ledger[i]
      /\ \A k \in 1..Len(es) : ledger'[Len(ledger) + k] = es[k]
      /\ remaining' \in [1..Len(ledger') -> Nat]
      /\ \A i \in 1..Len(ledger) : remaining'[i] = kept[i]
      /\ \A k \in 1..Len(es) : remaining'[Len(ledger) + k] = rs[k]
  <2>1. kept \in [1..Len(ledger) -> Nat]
    BY DEF Entries
  <2> DEFINE l == ledger \o es
             r == Extended(Len(ledger), kept, Len(es), rs)
  <2>2. /\ l \in Seq(Entry)
        /\ Len(l) = Len(ledger) + Len(es)
        /\ \A i \in 1..Len(ledger) : l[i] = ledger[i]
        /\ \A k \in 1..Len(es) : l[Len(ledger) + k] = es[k]
        /\ r \in [1..Len(l) -> Nat]
        /\ \A i \in 1..Len(ledger) : r[i] = kept[i]
        /\ \A k \in 1..Len(es) : r[Len(ledger) + k] = rs[k]
    BY <1>1, <2>1, AppendFacts
  <2> HIDE DEF l, r
  <2> QED
    BY <2>2, <1>2, <1>3 DEF l, r
<1>5. Entries' = 1..Len(ledger) + Len(es) /\ Entries \subseteq Entries'
  BY <1>1, <1>4 DEF Entries
<1>6. \A i \in Entries' \ Entries :
        i - Len(ledger) \in 1..Len(es) /\ i = Len(ledger) + (i - Len(ledger))
  BY <1>1, <1>5 DEF Entries
<1>7. nextExpiry' \in [Accounts -> Nat]
  <2>1. nextExpiry' = Refreshed(A, ledger', remaining')
    BY DEF Write
  <2>2. \A a \in Accounts : NextExpiry(ledger', remaining', a) \in Nat
    BY <1>4, NextExpiryDefined
  <2>3. nextExpiry \in [Accounts -> Nat]
    BY DEF TypeOK
  <2> QED
    BY <2>1, <2>2, <2>3 DEF Refreshed
<1> QED
  BY <1>2, <1>3, <1>4, <1>5, <1>6, <1>7 DEF Entries

-----------------------------------------------------------------------------
(* Debits.                                                                 *)

LEMMA LotsFacts ==
  ASSUME TypeOK, NEW a
  PROVE  /\ Lots(a) = LotsIn(ledger, a)
         /\ IsFiniteSet(Lots(a)) /\ Lots(a) \subseteq Entries
         /\ \A i \in Lots(a) : remaining[i] \in Nat
         /\ OpenCredit(a) \in Nat
<1>1. ledger \in Seq(Entry) /\ remaining \in [Entries -> Nat]
  BY DEF TypeOK
<1>2. Lots(a) = LotsIn(ledger, a)
  BY DEF Lots, LotsIn, Entries
<1>3. IsFiniteSet(Lots(a)) /\ Lots(a) \subseteq Entries
  BY <1>1, <1>2, LotsFinite DEF Entries
<1>4. \A i \in Lots(a) : remaining[i] \in Nat
  BY <1>1, <1>3
<1> QED
  BY <1>2, <1>3, <1>4, SumNat DEF OpenCredit

LEMMA TakeFacts ==
  ASSUME TypeOK, NEW a, NEW d \in Nat, NEW i \in Lots(a)
  PROVE  /\ Take(d, i) \in 0..remaining[i]
         /\ \A u \in 1..remaining[i] :
              u <= Take(d, i) <=> Sum(LotsBefore(i), remaining) + u <= d
<1>1. remaining[i] \in Nat
  BY LotsFacts
<1>2. Sum(LotsBefore(i), remaining) \in Nat
  <2>1. LotsBefore(i) \subseteq Lots(ledger[i].acct)
    BY DEF LotsBefore
  <2>2. IsFiniteSet(LotsBefore(i))
    BY <2>1, LotsFacts, FS_Subset
  <2>3. \A j \in LotsBefore(i) : remaining[j] \in Nat
    BY <2>1, LotsFacts
  <2> QED
    BY <2>2, <2>3, SumNat
<1> DEFINE s == Sum(LotsBefore(i), remaining)
<1>3. Take(d, i) = Min2(remaining[i], Max0(d - s))
  BY DEF Take
<1> HIDE DEF s
<1> QED
  BY <1>1, <1>2, <1>3 DEF Min2, Max0, s

(* A debit that the lots of the account cover takes exactly its amount from *)
(* them, and nothing from any other account's.                             *)
LEMMA DebitFacts ==
  ASSUME TypeOK, NEW a \in Accounts, NEW d \in Nat
  PROVE  /\ AfterDebit(a, d) \in [Entries -> Nat]
         /\ \A i \in Entries : AfterDebit(a, d)[i] <= remaining[i]
         /\ d <= OpenCredit(a) => Sum(Lots(a), AfterDebit(a, d)) = OpenCredit(a) - d
         /\ \A b \in Accounts \ {a} : Sum(Lots(b), AfterDebit(a, d)) = OpenCredit(b)
<1> DEFINE after == AfterDebit(a, d)
           t == [i \in Lots(a) |-> Take(d, i)]
           B == [i \in Lots(a) |-> LotsBefore(i)]
<1>1. remaining \in [Entries -> Nat]
  BY DEF TypeOK
<1>2. \A i \in Lots(a) : t[i] \in Nat /\ t[i] <= remaining[i]
                         /\ after[i] = remaining[i] - t[i]
  BY TakeFacts, LotsFacts DEF AfterDebit
<1>3. \A i \in Entries \ Lots(a) : after[i] = remaining[i]
  BY DEF AfterDebit
<1>4. \A i \in Entries : after[i] \in Nat /\ after[i] <= remaining[i]
  <2>1. ASSUME NEW i \in Lots(a) PROVE after[i] \in Nat /\ after[i] <= remaining[i]
    BY <1>2, LotsFacts
  <2>2. ASSUME NEW i \in Entries \ Lots(a)
        PROVE  after[i] \in Nat /\ after[i] <= remaining[i]
    BY <1>1, <1>3
  <2> QED
    BY <2>1, <2>2
<1>5. after \in [Entries -> Nat]
  BY <1>4 DEF AfterDebit
<1>6. ASSUME d <= OpenCredit(a) PROVE Sum(Lots(a), after) = OpenCredit(a) - d
  <2>1. Sum(Lots(a), t) = d
    <3>1. ASSUME NEW i \in Lots(a)
          PROVE  ledger[i].acct = a /\ ledger[i].expires \in Nat /\ i \in Nat
      <4>1. i \in 1..Len(ledger) /\ ledger[i].acct = a
        BY DEF Lots, Entries
      <4>2. ledger[i] \in Entry
        BY <4>1 DEF TypeOK
      <4> QED
        BY <4>1, <4>2 DEF Entry
    <3>2. \A i \in Lots(a) : B[i] \subseteq Lots(a) /\ i \notin B[i]
      BY <3>1 DEF LotsBefore, Earlier
    <3>3. \A i, j \in Lots(a) : i # j => i \in B[j] \/ j \in B[i]
      BY <3>1 DEF LotsBefore, Earlier
    <3>4. \A i, j \in Lots(a) : i \in B[j] => B[i] \subseteq B[j]
      <4>1. ASSUME NEW i \in Lots(a), NEW j \in Lots(a), NEW k \in B[i], i \in B[j]
            PROVE  k \in B[j]
        <5>1. k \in Lots(a) /\ Earlier(k, i) /\ Earlier(i, j)
          BY <4>1, <3>1 DEF LotsBefore
        <5> QED
          BY <5>1, <3>1 DEF LotsBefore, Earlier
      <4> QED
        BY <4>1
    <3>5. \A i \in Lots(a) : \A u \in 1..remaining[i] :
            u <= t[i] <=> Sum(B[i], remaining) + u <= d
      BY TakeFacts
    <3>6. IsFiniteSet(Lots(a)) /\ \A i \in Lots(a) : remaining[i] \in Nat
      BY LotsFacts
    <3>7. d <= Sum(Lots(a), remaining)
      BY <1>6 DEF OpenCredit
    <3> HIDE DEF B, t
    <3> QED
      BY <3>2, <3>3, <3>4, <3>5, <3>6, <3>7, <1>2, FifoTakesAll
  <2>2. Sum(Lots(a), remaining) = Sum(Lots(a), after) + Sum(Lots(a), t)
    <3>1. IsFiniteSet(Lots(a)) /\ Lots(a) \subseteq Entries
      BY LotsFacts
    <3>2. \A i \in Lots(a) :
            after[i] \in Nat /\ t[i] \in Nat /\ remaining[i] = after[i] + t[i]
      BY <1>2, <1>4, <3>1, LotsFacts
    <3> HIDE DEF after, t
    <3> QED
      BY <3>1, <3>2, SumPlus
  <2>3. Sum(Lots(a), after) \in Nat
    BY <1>4, LotsFacts, SumNat
  <2> QED
    BY <2>1, <2>2, <2>3 DEF OpenCredit
<1>7. ASSUME NEW b \in Accounts \ {a} PROVE Sum(Lots(b), after) = OpenCredit(b)
  <2>1. \A i \in Lots(b) : after[i] = remaining[i]
    BY <1>3 DEF Lots
  <2> HIDE DEF after
  <2> QED
    BY <2>1, SumExtensional DEF OpenCredit
<1> QED
  BY <1>4, <1>5, <1>6, <1>7

-----------------------------------------------------------------------------
(* What every write keeps: types, keys and cursors.                        *)

LEMMA WriteInvariant ==
  ASSUME TypeOK, CursorOK, OneEntryPerKey,
         NEW es \in Seq(Entry), NEW rs \in [1..Len(es) -> Nat],
         NEW kept \in [Entries -> Nat], NEW A \in SUBSET Accounts,
         Write(es, rs, kept, A),
         \A i \in Entries : kept[i] <= remaining[i],
         \A k \in 1..Len(es) : rs[k] > 0 => es[k].kind \in CreditKinds,
         \A k \in 1..Len(es) :
           es[k].key = None \/ (Len(es) = 1 /\ ~KeyUsed(es[k].key))
  PROVE  /\ ledger' \in Seq(Entry)
         /\ remaining' \in [Entries' -> Nat]
         /\ \A i \in Entries' : remaining'[i] > 0 => ledger'[i].kind \in CreditKinds
         /\ nextExpiry' \in [Accounts -> Nat]
         /\ OneEntryPerKey'
         /\ \A w \in Sweepers : /\ Rows(w) \subseteq Entries'
                                /\ \A i \in Rows(w) :
                                     /\ ledger'[i].kind \in CreditKinds
                                     /\ remaining'[i] <= sweep[w].seen[i]
<1>1. /\ ledger' \in Seq(Entry)
      /\ Entries \subseteq Entries'
      /\ \A i \in Entries : ledger'[i] = ledger[i] /\ remaining'[i] = kept[i]
      /\ \A k \in 1..Len(es) : /\ ledger'[Len(ledger) + k] = es[k]
                               /\ remaining'[Len(ledger) + k] = rs[k]
      /\ \A i \in Entries' \ Entries :
           i - Len(ledger) \in 1..Len(es) /\ i = Len(ledger) + (i - Len(ledger))
      /\ remaining' \in [Entries' -> Nat]
      /\ nextExpiry' \in [Accounts -> Nat]
  BY WriteFacts
<1>2. remaining \in [Entries -> Nat] /\ Len(ledger) \in Nat /\ Len(es) \in Nat
  BY DEF TypeOK
<1>3. \A i \in Entries' \ Entries : \E k \in 1..Len(es) :
        i = Len(ledger) + k /\ ledger'[i] = es[k] /\ remaining'[i] = rs[k]
  BY <1>1
<1>4. ASSUME NEW i \in Entries', remaining'[i] > 0
      PROVE  ledger'[i].kind \in CreditKinds
  <2>1. CASE i \in Entries
    <3>1. remaining[i] > 0
      BY <2>1, <1>1, <1>2, <1>4
    <3> QED
      BY <2>1, <3>1, <1>1 DEF TypeOK
  <2>2. CASE i \notin Entries
    BY <2>2, <1>3, <1>4
  <2> QED
    BY <2>1, <2>2
<1>5. ASSUME NEW i \in Entries', NEW j \in Entries',
             ledger'[i].key = ledger'[j].key, ledger'[i].key # None
      PROVE  i = j
  <2>1. CASE i \in Entries /\ j \in Entries
    BY <2>1, <1>1, <1>5 DEF OneEntryPerKey
  <2>2. CASE i \in Entries /\ j \notin Entries
    <3>1. PICK k \in 1..Len(es) : ledger'[j] = es[k]
      BY <2>2, <1>3
    <3>2. ~KeyUsed(es[k].key)
      BY <3>1, <1>5
    <3>3. ledger[i].key = es[k].key
      BY <2>2, <3>1, <1>1, <1>5
    <3> QED
      BY <2>2, <3>2, <3>3 DEF KeyUsed
  <2>3. CASE i \notin Entries /\ j \in Entries
    <3>1. PICK k \in 1..Len(es) : ledger'[i] = es[k]
      BY <2>3, <1>3
    <3>2. ~KeyUsed(es[k].key)
      BY <3>1, <1>5
    <3>3. ledger[j].key = es[k].key
      BY <2>3, <3>1, <1>1, <1>5
    <3> QED
      BY <2>3, <3>2, <3>3 DEF KeyUsed
  <2>4. CASE i \notin Entries /\ j \notin Entries
    <3>1. PICK k \in 1..Len(es) : i = Len(ledger) + k /\ ledger'[i] = es[k]
      BY <2>4, <1>3
    <3>2. PICK m \in 1..Len(es) : j = Len(ledger) + m /\ ledger'[j] = es[m]
      BY <2>4, <1>3
    <3>3. Len(es) = 1
      BY <3>1, <1>5
    <3> QED
      BY <3>1, <3>2, <3>3
  <2> QED
    BY <2>1, <2>2, <2>3, <2>4
<1>6. OneEntryPerKey'
  BY <1>5 DEF OneEntryPerKey
<1>7. ASSUME NEW w \in Sweepers, NEW i \in Rows(w)
      PROVE  /\ i \in Entries'
             /\ ledger'[i].kind \in CreditKinds
             /\ remaining'[i] <= sweep[w].seen[i]
  <2>1. i \in Entries /\ sweep[w].seen[i] \in Nat
    BY DEF TypeOK
  <2>2. ledger[i].kind \in CreditKinds /\ remaining[i] <= sweep[w].seen[i]
    BY DEF CursorOK
  <2>3. kept[i] \in Nat /\ remaining[i] \in Nat /\ kept[i] <= remaining[i]
    BY <2>1, <1>2
  <2>4. remaining'[i] = kept[i]
    BY <2>1, <1>1
  <2> QED
    BY <2>1, <2>2, <2>3, <2>4, <1>1
<1> QED
  BY <1>1, <1>4, <1>6, <1>7

(* The open credit of an account after a write.                            *)
LEMMA WriteOpenCredit ==
  ASSUME TypeOK,
         NEW es \in Seq(Entry), NEW rs \in [1..Len(es) -> Nat],
         NEW kept \in [Entries -> Nat], NEW A \in SUBSET Accounts,
         Write(es, rs, kept, A),
         NEW a
  PROVE  /\ LotsIn(es, a) = {} => OpenCredit(a)' = Sum(Lots(a), kept)
         /\ \A n : OpensLot(es, rs, a, n) => OpenCredit(a)' = Plus(Sum(Lots(a), kept), n)
<1>1. ledger \in Seq(Entry) /\ kept \in [1..Len(ledger) -> Nat]
  BY DEF TypeOK, Entries
<1>2. ledger' = ledger \o es /\ remaining' = Extended(Len(ledger), kept, Len(es), rs)
  BY WriteFacts
<1>3. OpenCredit(a)' = Sum(LotsIn(ledger', a), remaining')
  BY DEF OpenCredit, Lots, LotsIn, Entries
<1>4. Lots(a) = LotsIn(ledger, a)
  BY LotsFacts
<1>6. ASSUME LotsIn(es, a) = {}
      PROVE  OpenCredit(a)' = Sum(Lots(a), kept)
  <2>1. Sum(LotsIn(ledger \o es, a), Extended(Len(ledger), kept, Len(es), rs))
          = Sum(LotsIn(ledger, a), kept)
    BY SMTT(20), <1>1, <1>6, OpenAfterAppend
  <2> QED
    BY <1>2, <1>3, <1>4, <2>1
<1>7. ASSUME NEW n, OpensLot(es, rs, a, n)
      PROVE  OpenCredit(a)' = Plus(Sum(Lots(a), kept), n)
  <2>1. Sum(LotsIn(ledger \o es, a), Extended(Len(ledger), kept, Len(es), rs))
          = Plus(Sum(LotsIn(ledger, a), kept), n)
    BY SMTT(20), <1>1, <1>7, OpenAfterAppend
  <2> QED
    BY <1>2, <1>3, <1>4, <2>1
<1> QED
  BY <1>6, <1>7

(* The parts of the invariant that speak of balances.                      *)
Backed(a) ==
  /\ balance[a] <= OpenCredit(a)
  /\ a \notin raced => balance[a] = OpenCredit(a)

(* A write by a caller or a merge keeps the invariant if it keeps every    *)
(* balance backed.                                                         *)
LEMMA WriteStep ==
  ASSUME IInv,
         NEW es \in Seq(Entry), NEW rs \in [1..Len(es) -> Nat],
         NEW kept \in [Entries -> Nat], NEW A \in SUBSET Accounts,
         Write(es, rs, kept, A),
         \A i \in Entries : kept[i] <= remaining[i],
         \A k \in 1..Len(es) : rs[k] > 0 => es[k].kind \in CreditKinds,
         \A k \in 1..Len(es) :
           es[k].key = None \/ (Len(es) = 1 /\ ~KeyUsed(es[k].key)),
         balance' \in [Accounts -> Nat],
         \A a \in Accounts : Backed(a)',
         \/ pending' = pending
         \/ \E c \in Callers : pending' = [pending EXCEPT ![c] = Idle],
         UNCHANGED <<now, sweep, raced>>
  PROVE  IInv'
<1>1. TypeOK /\ CursorOK /\ OneEntryPerKey
  BY DEF IInv
<1>2. /\ ledger' \in Seq(Entry)
      /\ remaining' \in [Entries' -> Nat]
      /\ \A i \in Entries' : remaining'[i] > 0 => ledger'[i].kind \in CreditKinds
      /\ nextExpiry' \in [Accounts -> Nat]
      /\ OneEntryPerKey'
      /\ \A w \in Sweepers : /\ Rows(w) \subseteq Entries'
                             /\ \A i \in Rows(w) :
                                  /\ ledger'[i].kind \in CreditKinds
                                  /\ remaining'[i] <= sweep[w].seen[i]
  BY <1>1, WriteInvariant
<1>3. /\ pending' \in [Callers -> [req : Requests \cup {None}, at : 0..Horizon]]
      /\ \A c \in Callers : pending'[c].req = None => pending'[c] = Idle
  <2>1. /\ pending \in [Callers -> [req : Requests \cup {None}, at : 0..Horizon]]
        /\ \A c \in Callers : pending[c].req = None => pending[c] = Idle
    BY <1>1 DEF TypeOK
  <2>2. Idle \in [req : Requests \cup {None}, at : 0..Horizon]
    BY TimeAssumption DEF Idle
  <2> QED
    BY <2>1, <2>2
<1>4. \A w \in Sweepers : Rows(w)' = Rows(w)
  BY DEF Rows
<1>5. TypeOK'
  BY <1>1, <1>2, <1>3, <1>4 DEF TypeOK
<1>6. CursorOK'
  BY <1>2, <1>4 DEF CursorOK
<1>7. Solvent' /\ BooksBalance'
  BY DEF Backed, Solvent, BooksBalance
<1> QED
  BY <1>2, <1>5, <1>6, <1>7 DEF IInv

LEMMA ExpiresAtNat ==
  ASSUME NEW at \in 0..Horizon, NEW life \in Lifetimes \cup {Never}
  PROVE  ExpiresAt(at, life) \in Nat
BY TimeAssumption DEF ExpiresAt

LEMMA PendingRequest ==
  ASSUME TypeOK, NEW c \in Callers, pending[c] # Idle
  PROVE  /\ pending[c].req \in Requests /\ pending[c].at \in 0..Horizon
         /\ Op[pending[c].req] \in [kind : OpKinds, acct : Accounts, amount : Nat \ {0}]
         /\ Op[pending[c].req].acct \in Accounts
         /\ Op[pending[c].req].amount \in Nat \ {0}
<1>1. pending[c] \in [req : Requests \cup {None}, at : 0..Horizon]
  BY DEF TypeOK
<1>2. pending[c].req # None
  BY DEF TypeOK
<1>3. pending[c].req \in Requests /\ pending[c].at \in 0..Horizon
  BY <1>1, <1>2
<1>4. Op[pending[c].req] \in [kind : OpKinds, acct : Accounts, amount : Nat \ {0}]
  BY <1>3, RequestsAssumption
<1> QED
  BY <1>3, <1>4

LEMMA CreditStep ==
  ASSUME IInv, NEW c \in Callers, NEW life \in Lifetimes \cup {Never}, Credit(c, life)
  PROVE  IInv'
<1>1. TypeOK /\ Solvent /\ BooksBalance
  BY DEF IInv
<1>2. pending[c] # Idle
  BY DEF Credit
<1>r. PICK r, a, n : r = pending[c].req /\ a = Op[r].acct /\ n = Op[r].amount
  OBVIOUS
<1>e. PICK e : e = [acct |-> a, kind |-> "earn", amount |-> n,
                    after |-> balance[a] + n,
                    expires |-> ExpiresAt(pending[c].at, life), key |-> r]
  OBVIOUS
<1>s. PICK es, rs : es = <<e>> /\ rs = <<n>>
  OBVIOUS
<1>3. r \in Requests /\ a \in Accounts /\ n \in Nat \ {0}
  BY <1>1, <1>2, <1>r, PendingRequest
<1>a. {a} \in SUBSET Accounts
  BY <1>3
<1>4. ExpiresAt(pending[c].at, life) \in Nat
  BY <1>1, <1>2, PendingRequest, ExpiresAtNat
<1>5. balance \in [Accounts -> Nat] /\ remaining \in [Entries -> Nat]
  BY <1>1 DEF TypeOK
<1>6. e \in Entry
  BY <1>e, <1>3, <1>4, <1>5 DEF Entry, Kinds, CreditKinds
<1>7. es \in Seq(Entry) /\ Len(es) = 1 /\ es[1] = e
  BY <1>6, <1>s
<1>8. rs \in [1..Len(es) -> Nat] /\ rs[1] = n
  BY <1>3, <1>7, <1>s
<1>9. /\ ~KeyUsed(r)
      /\ Write(es, rs, remaining, {a})
      /\ balance' = [balance EXCEPT ![a] = @ + n]
      /\ pending' = [pending EXCEPT ![c] = Idle]
      /\ UNCHANGED <<now, sweep, raced>>
  BY <1>r, <1>e, <1>s DEF Credit, KeyFree
<1>10. e.acct = a /\ e.kind \in CreditKinds /\ e.key = r
  BY <1>e DEF CreditKinds
<1>11. OpensLot(es, rs, a, n)
  <2>1. LotsIn(es, a) = {1}
    BY <1>7, <1>10 DEF LotsIn
  <2> QED
    BY <2>1, <1>7, <1>8 DEF OpensLot
<1>12. \A b \in Accounts \ {a} : LotsIn(es, b) = {}
  BY <1>7, <1>10 DEF LotsIn
<1>13. OpenCredit(a)' = OpenCredit(a) + n
  <2>1. OpenCredit(a)' = Plus(Sum(Lots(a), remaining), n)
    <3>1. /\ TypeOK /\ es \in Seq(Entry) /\ rs \in [1..Len(es) -> Nat]
          /\ remaining \in [Entries -> Nat] /\ {a} \in SUBSET Accounts
          /\ Write(es, rs, remaining, {a}) /\ OpensLot(es, rs, a, n)
      BY <1>1, <1>a, <1>5, <1>7, <1>8, <1>9, <1>11
    <3> QED
      BY <3>1, WriteOpenCredit
  <2> QED
    BY <2>1 DEF OpenCredit, Plus
<1>14. \A b \in Accounts \ {a} : OpenCredit(b)' = OpenCredit(b)
  <2> SUFFICES ASSUME NEW b \in Accounts \ {a} PROVE OpenCredit(b)' = OpenCredit(b)
    OBVIOUS
  <2>1. OpenCredit(b)' = Sum(Lots(b), remaining)
    BY <1>1, <1>a, <1>5, <1>7, <1>8, <1>9, <1>12, WriteOpenCredit
  <2> QED
    BY <2>1 DEF OpenCredit
<1>15. balance' \in [Accounts -> Nat]
  BY <1>3, <1>5, <1>9
<1>16. ASSUME NEW b \in Accounts PROVE Backed(b)'
  <2>1. OpenCredit(b) \in Nat /\ balance[b] \in Nat
    BY <1>1, <1>5, LotsFacts
  <2>2. Backed(b)
    BY <1>1 DEF Backed, Solvent, BooksBalance
  <2>3. raced' = raced
    BY <1>9
  <2>4. CASE b = a
    <3>1. balance'[b] = balance[b] + n /\ OpenCredit(b)' = OpenCredit(b) + n
      BY <2>4, <1>3, <1>5, <1>9, <1>13
    <3> QED
      BY <3>1, <2>1, <2>2, <2>3, <1>3 DEF Backed
  <2>5. CASE b # a
    <3>1. balance'[b] = balance[b] /\ OpenCredit(b)' = OpenCredit(b)
      BY <2>5, <1>3, <1>5, <1>9, <1>14
    <3> QED
      BY <3>1, <2>2, <2>3 DEF Backed
  <2> QED
    BY <2>4, <2>5
<1>17. \A k \in 1..Len(es) : /\ rs[k] > 0 => es[k].kind \in CreditKinds
                             /\ Len(es) = 1 /\ ~KeyUsed(es[k].key)
  BY <1>7, <1>9, <1>10
<1>18. \A i \in Entries : remaining[i] <= remaining[i]
  BY <1>5
<1> QED
  BY <1>a, <1>5, <1>7, <1>8, <1>9, <1>15, <1>16, <1>17, <1>18, WriteStep

LEMMA DebitStep ==
  ASSUME IInv, NEW c \in Callers, Debit(c)
  PROVE  IInv'
<1>1. TypeOK /\ Solvent /\ BooksBalance
  BY DEF IInv
<1>2. pending[c] # Idle
  BY DEF Debit
<1>r. PICK r, a, d : r = pending[c].req /\ a = Op[r].acct /\ d = Op[r].amount
  OBVIOUS
<1>3. r \in Requests /\ a \in Accounts /\ d \in Nat \ {0}
  BY <1>1, <1>2, <1>r, PendingRequest
<1>e. PICK e : e = [acct |-> a, kind |-> "redeem", amount |-> -d,
                    after |-> balance[a] - d, expires |-> Never, key |-> r]
  OBVIOUS
<1>s. PICK es, rs, kept : es = <<e>> /\ rs = <<0>> /\ kept = AfterDebit(a, d)
  OBVIOUS
<1>a. {a} \in SUBSET Accounts
  BY <1>3
<1>5. balance \in [Accounts -> Nat]
  BY <1>1 DEF TypeOK
<1>9. /\ ~KeyUsed(r)
      /\ balance[a] >= d
      /\ Write(es, rs, kept, {a})
      /\ balance' = [balance EXCEPT ![a] = @ - d]
      /\ pending' = [pending EXCEPT ![c] = Idle]
      /\ UNCHANGED <<now, sweep, raced>>
  BY <1>r, <1>e, <1>s DEF Debit, KeyFree
<1>6. e \in Entry
  BY <1>e, <1>3, <1>5, <1>9, TimeAssumption DEF Entry, Kinds, DebitKinds
<1>7. es \in Seq(Entry) /\ Len(es) = 1 /\ es[1] = e
  BY <1>6, <1>s
<1>8. rs \in [1..Len(es) -> Nat] /\ rs[1] = 0
  BY <1>7, <1>s
<1>10. e.kind \notin CreditKinds /\ e.key = r
  BY <1>e DEF CreditKinds
<1>11. \A b \in Accounts : LotsIn(es, b) = {}
  BY <1>7, <1>10 DEF LotsIn
<1>12. /\ kept \in [Entries -> Nat]
       /\ \A i \in Entries : kept[i] <= remaining[i]
       /\ d <= OpenCredit(a) => Sum(Lots(a), kept) = OpenCredit(a) - d
       /\ \A b \in Accounts \ {a} : Sum(Lots(b), kept) = OpenCredit(b)
  BY <1>1, <1>3, <1>s, DebitFacts
<1>13. \A b \in Accounts : OpenCredit(b)' = Sum(Lots(b), kept)
  <2> SUFFICES ASSUME NEW b \in Accounts PROVE OpenCredit(b)' = Sum(Lots(b), kept)
    OBVIOUS
  <2> QED
    BY <1>1, <1>a, <1>7, <1>8, <1>9, <1>11, <1>12, WriteOpenCredit
<1>15. balance' \in [Accounts -> Nat]
  BY <1>3, <1>5, <1>9
<1>16. ASSUME NEW b \in Accounts PROVE Backed(b)'
  <2>1. OpenCredit(b) \in Nat /\ balance[b] \in Nat
    BY <1>1, <1>5, LotsFacts
  <2>2. Backed(b)
    BY <1>1 DEF Backed, Solvent, BooksBalance
  <2>3. raced' = raced
    BY <1>9
  <2>4. CASE b = a
    <3>1. balance'[b] = balance[b] - d
      BY <2>4, <1>3, <1>5, <1>9
    <3>2. d <= balance[b] /\ balance[b] <= OpenCredit(b)
      BY <2>2, <2>4, <1>9, <1>3, <2>1 DEF Backed
    <3>3. d <= OpenCredit(b)
      BY <3>2, <2>1, <1>3
    <3>4. OpenCredit(b)' = OpenCredit(b) - d
      BY <2>4, <3>3, <1>12, <1>13
    <3> QED
      BY <3>1, <3>4, <2>1, <2>2, <2>3, <1>3 DEF Backed
  <2>5. CASE b # a
    <3>1. balance'[b] = balance[b] /\ OpenCredit(b)' = OpenCredit(b)
      BY <2>5, <1>3, <1>5, <1>9, <1>12, <1>13
    <3> QED
      BY <3>1, <2>2, <2>3 DEF Backed
  <2> QED
    BY <2>4, <2>5
<1>17. \A k \in 1..Len(es) : /\ rs[k] > 0 => es[k].kind \in CreditKinds
                             /\ Len(es) = 1 /\ ~KeyUsed(es[k].key)
  BY <1>7, <1>8, <1>9, <1>10
<1> QED
  BY <1>a, <1>7, <1>8, <1>9, <1>12, <1>15, <1>16, <1>17, WriteStep

LEMMA MergeStep ==
  ASSUME IInv, NEW from \in Accounts, NEW to \in Accounts,
         NEW life \in Lifetimes \cup {Never}, Merge(from, to, life)
  PROVE  IInv'
<1>1. TypeOK /\ Solvent /\ BooksBalance
  BY DEF IInv
<1>n. PICK n, out, in :
        /\ n = balance[from]
        /\ out = [acct |-> from, kind |-> "transfer_out", amount |-> -n, after |-> 0,
                  expires |-> Never, key |-> None]
        /\ in = [acct |-> to, kind |-> "transfer_in", amount |-> n,
                 after |-> balance[to] + n, expires |-> ExpiresAt(now, life),
                 key |-> None]
  OBVIOUS
<1>s. PICK es, rs, kept : /\ es = <<out, in>> /\ rs = <<0, n>>
                          /\ kept = AfterDebit(from, n)
  OBVIOUS
<1>3. balance \in [Accounts -> Nat] /\ n \in Nat /\ now \in 0..Horizon
  BY <1>1, <1>n DEF TypeOK
<1>a. {from, to} \in SUBSET Accounts
  OBVIOUS
<1>9. /\ from # to
      /\ Write(es, rs, kept, {from, to})
      /\ balance' = [balance EXCEPT ![from] = 0, ![to] = @ + n]
      /\ UNCHANGED <<now, pending, sweep, raced>>
  BY <1>n, <1>s DEF Merge
<1>6. out \in Entry /\ in \in Entry
  <2>1. ExpiresAt(now, life) \in Nat
    BY <1>3, ExpiresAtNat
  <2> QED
    BY <1>n, <1>3, <2>1, TimeAssumption DEF Entry, Kinds, DebitKinds, CreditKinds
<1>7. es \in Seq(Entry) /\ Len(es) = 2 /\ es[1] = out /\ es[2] = in
  BY <1>6, <1>s
<1>8. rs \in [1..Len(es) -> Nat] /\ rs[1] = 0 /\ rs[2] = n
  BY <1>3, <1>7, <1>s
<1>10. /\ out.kind \notin CreditKinds /\ out.key = None
       /\ in.acct = to /\ in.kind \in CreditKinds /\ in.key = None
  BY <1>n DEF CreditKinds
<1>11. OpensLot(es, rs, to, n)
  <2>1. LotsIn(es, to) = {2}
    BY <1>7, <1>10 DEF LotsIn
  <2> QED
    BY <2>1, <1>7, <1>8 DEF OpensLot
<1>12. \A b \in Accounts \ {to} : LotsIn(es, b) = {}
  BY <1>7, <1>10 DEF LotsIn
<1>13. /\ kept \in [Entries -> Nat]
       /\ \A i \in Entries : kept[i] <= remaining[i]
       /\ n <= OpenCredit(from) => Sum(Lots(from), kept) = OpenCredit(from) - n
       /\ \A b \in Accounts \ {from} : Sum(Lots(b), kept) = OpenCredit(b)
  BY <1>1, <1>3, <1>s, DebitFacts
<1>14. OpenCredit(to)' = OpenCredit(to) + n
  <2>1. OpenCredit(to)' = Plus(Sum(Lots(to), kept), n)
    BY <1>1, <1>a, <1>7, <1>8, <1>9, <1>11, <1>13, WriteOpenCredit
  <2> QED
    BY <2>1, <1>9, <1>13 DEF Plus
<1>15. \A b \in Accounts \ {to} : OpenCredit(b)' = Sum(Lots(b), kept)
  <2> SUFFICES ASSUME NEW b \in Accounts \ {to}
               PROVE  OpenCredit(b)' = Sum(Lots(b), kept)
    OBVIOUS
  <2> QED
    BY <1>1, <1>a, <1>7, <1>8, <1>9, <1>12, <1>13, WriteOpenCredit
<1>16. balance' \in [Accounts -> Nat]
  BY <1>3, <1>9
<1>17. ASSUME NEW b \in Accounts PROVE Backed(b)'
  <2>1. OpenCredit(b) \in Nat /\ balance[b] \in Nat
    BY <1>1, <1>3, LotsFacts
  <2>2. Backed(b)
    BY <1>1 DEF Backed, Solvent, BooksBalance
  <2>3. raced' = raced
    BY <1>9
  <2>4. CASE b = to
    <3>1. balance'[b] = balance[b] + n /\ OpenCredit(b)' = OpenCredit(b) + n
      BY <2>4, <1>3, <1>9, <1>14
    <3> QED
      BY <3>1, <2>1, <2>2, <2>3, <1>3 DEF Backed
  <2>5. CASE b = from
    <3>1. balance'[b] = 0 /\ balance[b] = n
      BY <2>5, <1>n, <1>3, <1>9
    <3>2. n <= OpenCredit(b)
      BY <3>1, <2>2 DEF Backed
    <3>3. OpenCredit(b)' = OpenCredit(b) - n
      BY <2>5, <3>2, <1>9, <1>13, <1>15
    <3> QED
      BY <3>1, <3>2, <3>3, <2>1, <2>2, <2>3, <1>3 DEF Backed
  <2>6. CASE b # from /\ b # to
    <3>1. balance'[b] = balance[b] /\ OpenCredit(b)' = OpenCredit(b)
      BY <2>6, <1>3, <1>9, <1>13, <1>15
    <3> QED
      BY <3>1, <2>2, <2>3 DEF Backed
  <2> QED
    BY <2>4, <2>5, <2>6
<1>18. \A k \in 1..Len(es) : /\ rs[k] > 0 => es[k].kind \in CreditKinds
                             /\ es[k].key = None
  BY <1>7, <1>8, <1>10
<1> QED
  BY <1>a, <1>7, <1>8, <1>9, <1>13, <1>16, <1>17, <1>18, WriteStep

-----------------------------------------------------------------------------
(* The expiry sweep.                                                       *)

SweepTypeOK(w) ==
  /\ sweep[w] = [seen |-> sweep[w].seen, locked |-> sweep[w].locked]
  /\ sweep[w].seen \in [Rows(w) -> Nat]
  /\ Rows(w) \subseteq Entries
  /\ sweep[w].locked \in SUBSET Accounts

LEMMA SweepTypeKept ==
  ASSUME NEW v \in Sweepers, SweepTypeOK(v), sweep'[v] = sweep[v], Entries \subseteq Entries'
  PROVE  SweepTypeOK(v)'
BY DEF SweepTypeOK, Rows

LEMMA AsleepFacts == DOMAIN Asleep.seen = {} /\ Asleep.locked = {}
  /\ Asleep = [seen |-> Asleep.seen, locked |-> Asleep.locked]
  /\ Asleep.seen \in [DOMAIN Asleep.seen -> Nat]
BY DEF Asleep

(* Steps that write nothing keep the invariant.                            *)
LEMMA ReadStep ==
  ASSUME IInv, UNCHANGED <<ledger, remaining, balance, nextExpiry, raced>>,
         now' \in 0..Horizon,
         \/ pending' = pending
         \/ \E c \in Callers : pending' = [pending EXCEPT ![c] = Idle]
         \/ \E c \in Callers, r \in Requests :
              pending' = [pending EXCEPT ![c] = [req |-> r, at |-> now]],
         DOMAIN sweep' = Sweepers,
         \A w \in Sweepers : SweepTypeOK(w)',
         CursorOK'
  PROVE  IInv'
<1>1. TypeOK /\ OneEntryPerKey /\ Solvent /\ BooksBalance
  BY DEF IInv
<1>2. Entries' = Entries /\ \A a : OpenCredit(a)' = OpenCredit(a)
  BY DEF Entries, OpenCredit, Lots
<1>3. Idle \in [req : Requests \cup {None}, at : 0..Horizon]
  BY TimeAssumption DEF Idle
<1>4. /\ pending' \in [Callers -> [req : Requests \cup {None}, at : 0..Horizon]]
      /\ \A c \in Callers : pending'[c].req = None => pending'[c] = Idle
  <2>1. /\ pending \in [Callers -> [req : Requests \cup {None}, at : 0..Horizon]]
        /\ \A c \in Callers : pending[c].req = None => pending[c] = Idle
        /\ now \in 0..Horizon
    BY <1>1 DEF TypeOK
  <2>2. CASE pending' = pending
    BY <2>1, <2>2
  <2>3. CASE \E c \in Callers : pending' = [pending EXCEPT ![c] = Idle]
    BY <2>1, <2>3, <1>3
  <2>4. ASSUME NEW c \in Callers, NEW r \in Requests,
               pending' = [pending EXCEPT ![c] = [req |-> r, at |-> now]]
        PROVE  /\ pending' \in [Callers -> [req : Requests \cup {None}, at : 0..Horizon]]
               /\ \A b \in Callers : pending'[b].req = None => pending'[b] = Idle
    <3>1. [req |-> r, at |-> now] \in [req : Requests \cup {None}, at : 0..Horizon]
      BY <2>1
    <3>2. [req |-> r, at |-> now].req # None
      BY RequestsAssumption
    <3> QED
      BY <2>1, <2>4, <3>1, <3>2
  <2> QED
    BY <2>2, <2>3, <2>4
<1>5. TypeOK'
  BY <1>1, <1>2, <1>4 DEF TypeOK, SweepTypeOK
<1>6. OneEntryPerKey'
  BY <1>1, <1>2 DEF OneEntryPerKey
<1>7. Solvent' /\ BooksBalance'
  BY <1>1, <1>2 DEF Solvent, BooksBalance
<1> QED
  BY <1>5, <1>6, <1>7 DEF IInv

(* A step that leaves the cursors alone leaves their invariant alone.      *)
LEMMA CursorsKept ==
  ASSUME IInv, UNCHANGED <<ledger, remaining, sweep>>
  PROVE  /\ DOMAIN sweep' = Sweepers
         /\ \A w \in Sweepers : SweepTypeOK(w)'
         /\ CursorOK'
BY DEF IInv, TypeOK, CursorOK, SweepTypeOK, Rows, Entries

LEMMA SweepOpenStep ==
  ASSUME IInv, NEW w \in Sweepers, SweepOpen(w)
  PROVE  IInv'
<1>1. TypeOK /\ CursorOK
  BY DEF IInv
<1>s. PICK s : s = [i \in Due |-> remaining[i]]
  OBVIOUS
<1>2. /\ sweep' = [sweep EXCEPT ![w].seen = s]
      /\ UNCHANGED <<ledger, remaining, balance, nextExpiry, now, pending, raced>>
  BY <1>s DEF SweepOpen
<1>3. Due \subseteq Entries /\ Entries' = Entries
  BY <1>2 DEF Due, Entries
<1>4. remaining \in [Entries -> Nat] /\ now \in 0..Horizon
  BY <1>1 DEF TypeOK
<1>5. /\ DOMAIN s = Due /\ s \in [Due -> Nat]
      /\ \A i \in Due : s[i] = remaining[i] /\ ledger[i].kind \in CreditKinds
  BY <1>1, <1>3, <1>4, <1>s DEF TypeOK, Due
<1>6. \A v \in Sweepers : SweepTypeOK(v)
  BY <1>1 DEF TypeOK, SweepTypeOK
<1>7. sweep'[w] = [seen |-> s, locked |-> sweep[w].locked]
  <2>1. sweep[w] = [seen |-> sweep[w].seen, locked |-> sweep[w].locked]
    BY <1>6 DEF SweepTypeOK
  <2>2. w \in DOMAIN sweep
    BY <1>1 DEF TypeOK
  <2> QED
    BY <2>1, <2>2, <1>2
<1>8. DOMAIN sweep' = Sweepers /\ \A v \in Sweepers \ {w} : sweep'[v] = sweep[v]
  BY <1>1, <1>2 DEF TypeOK
<1>9. Rows(w)' = Due /\ \A v \in Sweepers \ {w} : Rows(v)' = Rows(v)
  BY <1>5, <1>7, <1>8 DEF Rows
<1>10. ASSUME NEW v \in Sweepers PROVE SweepTypeOK(v)'
  <2>1. CASE v = w
    <3>1. sweep'[w].locked \in SUBSET Accounts
      <4>1. sweep[w].locked \in SUBSET Accounts
        BY <1>6 DEF SweepTypeOK
      <4>2. sweep'[w].locked = sweep[w].locked
        BY <1>7
      <4> QED
        BY <4>1, <4>2
    <3>2. sweep'[w].seen \in [Rows(w)' -> Nat]
      BY <1>5, <1>7, <1>9
    <3>3. sweep'[w] = [seen |-> sweep'[w].seen, locked |-> sweep'[w].locked]
      BY <1>7
    <3>4. Rows(w)' \subseteq Entries'
      BY <1>3, <1>9
    <3> QED
      BY <2>1, <3>1, <3>2, <3>3, <3>4 DEF SweepTypeOK
  <2>2. CASE v # w
    BY <2>2, <1>3, <1>6, <1>8, SweepTypeKept
  <2> QED
    BY <2>1, <2>2
<1>11. CursorOK'
  <2> SUFFICES ASSUME NEW v \in Sweepers, NEW i \in Rows(v)'
               PROVE  /\ ledger[i].kind \in CreditKinds
                      /\ remaining[i] <= sweep'[v].seen[i]
    BY <1>2 DEF CursorOK
  <2>1. CASE v = w
    <3>1. i \in Due /\ sweep'[v].seen[i] = remaining[i]
      BY <2>1, <1>5, <1>7, <1>9
    <3>2. remaining[i] \in Nat
      BY <3>1, <1>3, <1>4
    <3> QED
      BY <3>1, <3>2, <1>5
  <2>2. CASE v # w
    BY <2>2, <1>1, <1>8, <1>9 DEF CursorOK
  <2> QED
    BY <2>1, <2>2
<1> QED
  BY <1>2, <1>4, <1>8, <1>10, <1>11, ReadStep

LEMMA SweepLockStep ==
  ASSUME IInv, NEW w \in Sweepers, SweepLock(w)
  PROVE  IInv'
<1>1. TypeOK /\ CursorOK
  BY DEF IInv
<1>2. PICK i \in Rows(w) :
        /\ sweep' = [sweep EXCEPT ![w].locked = @ \cup {ledger[i].acct}]
        /\ UNCHANGED <<ledger, remaining, balance, nextExpiry, now, pending, raced>>
  BY DEF SweepLock
<1>3. Entries' = Entries /\ now \in 0..Horizon
  BY <1>1, <1>2 DEF Entries, TypeOK
<1>4. \A v \in Sweepers : SweepTypeOK(v)
  BY <1>1 DEF TypeOK, SweepTypeOK
<1>5. ledger[i].acct \in Accounts
  <2>1. i \in Entries
    BY <1>4 DEF SweepTypeOK
  <2>2. ledger[i] \in Entry
    BY <2>1, <1>1 DEF TypeOK, Entries
  <2> QED
    BY <2>2 DEF Entry
<1>6. sweep'[w] = [seen |-> sweep[w].seen,
                   locked |-> sweep[w].locked \cup {ledger[i].acct}]
  <2>1. sweep[w] = [seen |-> sweep[w].seen, locked |-> sweep[w].locked]
    BY <1>4 DEF SweepTypeOK
  <2>2. w \in DOMAIN sweep
    BY <1>1 DEF TypeOK
  <2> QED
    BY <2>1, <2>2, <1>2
<1>7. DOMAIN sweep' = Sweepers /\ \A v \in Sweepers \ {w} : sweep'[v] = sweep[v]
  BY <1>1, <1>2 DEF TypeOK
<1>8. \A v \in Sweepers : Rows(v)' = Rows(v) /\ sweep'[v].seen = sweep[v].seen
  BY <1>6, <1>7 DEF Rows
<1>9. ASSUME NEW v \in Sweepers PROVE SweepTypeOK(v)'
  <2>1. CASE v = w
    <3>1. sweep'[w].locked \in SUBSET Accounts
      <4>1. sweep[w].locked \in SUBSET Accounts
        BY <1>4 DEF SweepTypeOK
      <4>2. sweep'[w].locked = sweep[w].locked \cup {ledger[i].acct}
        BY <1>6
      <4> QED
        BY <4>1, <4>2, <1>5
    <3>2. sweep'[w].seen \in [Rows(w)' -> Nat]
      BY <1>4, <1>8 DEF SweepTypeOK
    <3>3. sweep'[w] = [seen |-> sweep'[w].seen, locked |-> sweep'[w].locked]
      BY <1>6
    <3>4. Rows(w)' \subseteq Entries'
      BY <1>3, <1>4, <1>8 DEF SweepTypeOK
    <3> QED
      BY <2>1, <3>1, <3>2, <3>3, <3>4 DEF SweepTypeOK
  <2>2. CASE v # w
    BY <2>2, <1>3, <1>4, <1>7, SweepTypeKept
  <2> QED
    BY <2>1, <2>2
<1>10. CursorOK'
  BY <1>1, <1>2, <1>8 DEF CursorOK
<1> QED
  BY <1>2, <1>3, <1>7, <1>9, <1>10, ReadStep

LEMMA SweepAbortStep ==
  ASSUME IInv, NEW w \in Sweepers, SweepAbort(w)
  PROVE  IInv'
<1>1. TypeOK /\ CursorOK
  BY DEF IInv
<1>2. /\ sweep' = [sweep EXCEPT ![w] = Asleep]
      /\ UNCHANGED <<ledger, remaining, balance, nextExpiry, now, pending, raced>>
  BY DEF SweepAbort
<1>3. Entries' = Entries /\ now \in 0..Horizon
  BY <1>1, <1>2 DEF Entries, TypeOK
<1>4. \A v \in Sweepers : SweepTypeOK(v)
  BY <1>1 DEF TypeOK, SweepTypeOK
<1>5. /\ DOMAIN sweep' = Sweepers /\ sweep'[w] = Asleep
      /\ \A v \in Sweepers \ {w} : sweep'[v] = sweep[v]
  BY <1>1, <1>2 DEF TypeOK
<1>6. Rows(w)' = {} /\ \A v \in Sweepers \ {w} : Rows(v)' = Rows(v)
  BY <1>5, AsleepFacts DEF Rows
<1>7. ASSUME NEW v \in Sweepers PROVE SweepTypeOK(v)'
  <2>1. CASE v = w
    BY <2>1, <1>5, <1>6, AsleepFacts DEF SweepTypeOK, Rows
  <2>2. CASE v # w
    BY <2>2, <1>3, <1>4, <1>5, SweepTypeKept
  <2> QED
    BY <2>1, <2>2
<1>8. CursorOK'
  BY <1>1, <1>2, <1>5, <1>6 DEF CursorOK
<1> QED
  BY <1>2, <1>3, <1>5, <1>7, <1>8, ReadStep

(* The rows of a cursor that belong to an account are lots of the account. *)
LEMMA CursorRows ==
  ASSUME TypeOK, CursorOK, NEW w \in Sweepers, NEW a
  PROVE  /\ RowsOf(w, a) = Lots(a) \cap Rows(w)
         /\ IsFiniteSet(RowsOf(w, a)) /\ IsFiniteSet(Rows(w))
         /\ \A i \in Rows(w) : sweep[w].seen[i] \in Nat /\ remaining[i] \in Nat
<1>1. Rows(w) \subseteq Entries /\ sweep[w].seen \in [Rows(w) -> Nat]
  BY DEF TypeOK
<1>2. IsFiniteSet(Entries)
  BY FS_Interval DEF TypeOK, Entries
<1>3. IsFiniteSet(Rows(w))
  BY <1>1, <1>2, FS_Subset
<1>4. RowsOf(w, a) = Lots(a) \cap Rows(w)
  BY <1>1 DEF CursorOK, RowsOf, Lots
<1>5. IsFiniteSet(RowsOf(w, a))
  BY <1>3, <1>4, FS_Subset
<1>6. \A i \in Rows(w) : sweep[w].seen[i] \in Nat /\ remaining[i] \in Nat
  BY <1>1 DEF TypeOK
<1> QED
  BY <1>3, <1>4, <1>5, <1>6

LEMMA ChargeNat ==
  ASSUME TypeOK, CursorOK, NEW w \in Sweepers, NEW a, NEW S
  PROVE  Charge(w, a, S) \in Nat
<1>1. S \cap RowsOf(w, a) \subseteq Rows(w)
  BY DEF RowsOf
<1>2. IsFiniteSet(S \cap RowsOf(w, a))
  BY <1>1, CursorRows, FS_Subset
<1>3. \A i \in S \cap RowsOf(w, a) : sweep[w].seen[i] \in Nat
  BY <1>1, CursorRows
<1> QED
  BY <1>2, <1>3, SumNat DEF Charge

(* What the lots of an account hold once the rows of a cursor are zeroed,  *)
(* against what the cursor's sweep charges the account.                    *)
LEMMA SweptLots ==
  ASSUME TypeOK, CursorOK, NEW w \in Sweepers, NEW a,
         NEW kept, kept = [i \in Entries |-> IF i \in Rows(w) THEN 0 ELSE remaining[i]]
  PROVE  \E gone \in Nat :
           /\ gone <= Charge(w, a, Rows(w)) /\ gone <= OpenCredit(a)
           /\ Sum(Lots(a), kept) = OpenCredit(a) - gone
           /\ (\A i \in RowsOf(w, a) : sweep[w].seen[i] = remaining[i])
                => gone = Charge(w, a, Rows(w))
<1> DEFINE R == RowsOf(w, a)
           L == Lots(a)
           seen == sweep[w].seen
<1>1. /\ R = L \cap Rows(w) /\ IsFiniteSet(R)
      /\ \A i \in R : seen[i] \in Nat /\ remaining[i] \in Nat
      /\ \A i \in R : remaining[i] <= seen[i]
  BY CursorRows DEF CursorOK, RowsOf
<1>2. IsFiniteSet(L) /\ L \subseteq Entries /\ \A i \in L : remaining[i] \in Nat
  BY LotsFacts
<1>3. Charge(w, a, Rows(w)) = Sum(R, seen)
  <2>1. Rows(w) \cap RowsOf(w, a) = R
    BY DEF RowsOf
  <2> QED
    BY <2>1 DEF Charge
<1>4. /\ IsFiniteSet(L \ R) /\ (L \ R) \cap R = {} /\ L = (L \ R) \cup R
  BY <1>1, <1>2, FS_Subset
<1>5. /\ \A i \in L : kept[i] \in Nat
      /\ \A i \in L \ R : kept[i] = remaining[i]
      /\ \A i \in R : kept[i] = 0
  BY <1>1, <1>2
<1> HIDE DEF R, L, seen
<1>6. Sum(L, kept) = Sum(L \ R, kept) + Sum(R, kept)
  BY <1>1, <1>2, <1>4, <1>5, SumDisjoint
<1>7. Sum(L, remaining) = Sum(L \ R, remaining) + Sum(R, remaining)
  BY <1>1, <1>2, <1>4, SumDisjoint
<1>8. Sum(L \ R, kept) = Sum(L \ R, remaining)
  BY <1>5, SumExtensional
<1>9. Sum(R, kept) = 0
  BY <1>5, SumZero
<1>10. Sum(R, remaining) <= Sum(R, seen)
  BY <1>1, SumMonotone
<1>11. (\A i \in R : seen[i] = remaining[i]) => Sum(R, seen) = Sum(R, remaining)
  BY SumExtensional
<1>12. /\ Sum(R, remaining) \in Nat /\ Sum(L \ R, remaining) \in Nat
       /\ Sum(L \ R, kept) \in Nat
  BY <1>1, <1>2, <1>4, <1>5, SumNat
<1>13. OpenCredit(a) = Sum(L, remaining)
  BY DEF OpenCredit, L
<1> DEFINE gone == Sum(R, remaining)
<1>14. /\ gone \in Nat /\ gone <= Charge(w, a, Rows(w)) /\ gone <= OpenCredit(a)
       /\ Sum(L, kept) = OpenCredit(a) - gone
       /\ (\A i \in R : seen[i] = remaining[i]) => gone = Charge(w, a, Rows(w))
  BY <1>3, <1>6, <1>7, <1>8, <1>9, <1>10, <1>11, <1>12, <1>13
<1> QED
  BY <1>14 DEF R, L, seen

LEMMA SweepCommitStep ==
  ASSUME IInv, NEW w \in Sweepers, SweepCommit(w)
  PROVE  IInv'
<1>1. TypeOK /\ CursorOK /\ OneEntryPerKey /\ Solvent /\ BooksBalance
  BY DEF IInv
<1>s. PICK o, es, rs, kept, A :
        /\ o \in CursorOrders(w)
        /\ es = [k \in 1..Len(o) |-> ExpireEntry(w, o, k)]
        /\ rs = [k \in 1..Len(o) |-> 0]
        /\ kept = [i \in Entries |-> IF i \in Rows(w) THEN 0 ELSE remaining[i]]
        /\ A = AccountsOf(w)
        /\ Write(es, rs, kept, A)
  <2> DEFINE z == [i \in Entries |-> IF i \in Rows(w) THEN 0 ELSE remaining[i]]
  <2>1. PICK o \in CursorOrders(w) :
          Write([k \in 1..Len(o) |-> ExpireEntry(w, o, k)],
                [k \in 1..Len(o) |-> 0], z, AccountsOf(w))
    BY DEF SweepCommit
  <2> QED
    BY <2>1
<1>2. /\ balance' = [a \in Accounts |-> Max0(balance[a] - Charge(w, a, Rows(w)))]
      /\ raced' = raced \cup
           {a \in Accounts : \E i \in RowsOf(w, a) : sweep[w].seen[i] # remaining[i]}
      /\ sweep' = [sweep EXCEPT ![w] = Asleep]
      /\ UNCHANGED <<now, pending>>
  BY DEF SweepCommit
<1>3. /\ balance \in [Accounts -> Nat] /\ remaining \in [Entries -> Nat]
      /\ Rows(w) \subseteq Entries /\ sweep[w].seen \in [Rows(w) -> Nat]
      /\ ledger \in Seq(Entry) /\ raced \in SUBSET Accounts
  BY <1>1 DEF TypeOK
<1>4. Len(o) \in Nat /\ \A k \in 1..Len(o) : o[k] \in Rows(w)
  <2>1. Cardinality(Rows(w)) \in Nat
    BY <1>1, CursorRows, FS_CardinalityType
  <2>2. o \in [1..Cardinality(Rows(w)) -> Rows(w)]
    BY <1>s DEF CursorOrders
  <2>3. o \in Seq(Rows(w)) /\ Len(o) = Cardinality(Rows(w))
    BY <2>1, <2>2
  <2> QED
    BY <2>1, <2>2, <2>3
<1>5. \A i \in Entries : ledger[i].acct \in Accounts
  <2> SUFFICES ASSUME NEW i \in Entries PROVE ledger[i].acct \in Accounts
    OBVIOUS
  <2>1. ledger[i] \in Entry
    BY <1>3 DEF Entries
  <2> QED
    BY <2>1 DEF Entry
<1>6. ASSUME NEW k \in 1..Len(o)
      PROVE  /\ ExpireEntry(w, o, k) \in Entry
             /\ ExpireEntry(w, o, k).kind = "expire"
             /\ ExpireEntry(w, o, k).key = None
  <2>1. o[k] \in Rows(w) /\ ledger[o[k]].acct \in Accounts /\ sweep[w].seen[o[k]] \in Nat
    BY <1>3, <1>4, <1>5
  <2>2. balance[ledger[o[k]].acct] \in Nat
    BY <2>1, <1>3
  <2>3. Charge(w, ledger[o[k]].acct, {o[m] : m \in 1..k}) \in Nat
    BY <1>1, ChargeNat
  <2>4. Max0(balance[ledger[o[k]].acct]
               - Charge(w, ledger[o[k]].acct, {o[m] : m \in 1..k})) \in Nat
    BY <2>2, <2>3 DEF Max0
  <2> QED
    BY <2>1, <2>4, TimeAssumption DEF ExpireEntry, Entry, Kinds
<1>7. /\ es \in Seq(Entry) /\ Len(es) = Len(o)
      /\ \A k \in 1..Len(es) : es[k].kind = "expire" /\ es[k].key = None
  <2>1. es \in [1..Len(o) -> Entry]
    BY <1>s, <1>6
  <2>2. es \in Seq(Entry) /\ Len(es) = Len(o)
    BY <2>1, <1>4
  <2> QED
    BY <2>2, <1>s, <1>6
<1>8. rs \in [1..Len(es) -> Nat] /\ \A k \in 1..Len(es) : rs[k] = 0
  BY <1>s, <1>7
<1>9. kept \in [Entries -> Nat] /\ \A i \in Entries : kept[i] <= remaining[i]
  BY <1>s, <1>3
<1>10. A \in SUBSET Accounts
  BY <1>s, <1>3, <1>5 DEF AccountsOf
<1>11. \A a : LotsIn(es, a) = {}
  BY <1>7 DEF LotsIn, CreditKinds
<1>12. \A a \in Accounts : OpenCredit(a)' = Sum(Lots(a), kept)
  <2> SUFFICES ASSUME NEW a \in Accounts PROVE OpenCredit(a)' = Sum(Lots(a), kept)
    OBVIOUS
  <2>1. /\ TypeOK /\ es \in Seq(Entry) /\ rs \in [1..Len(es) -> Nat] /\ kept \in [Entries -> Nat]
        /\ A \in SUBSET Accounts /\ Write(es, rs, kept, A) /\ LotsIn(es, a) = {}
    BY <1>1, <1>s, <1>7, <1>8, <1>9, <1>10, <1>11
  <2> QED
    BY <2>1, WriteOpenCredit
<1>13. ASSUME NEW a \in Accounts PROVE balance'[a] \in Nat /\ Backed(a)'
  <2>1. OpenCredit(a) \in Nat /\ balance[a] \in Nat /\ Charge(w, a, Rows(w)) \in Nat
    BY <1>1, <1>3, LotsFacts, ChargeNat
  <2>2. Backed(a)
    BY <1>1 DEF Backed, Solvent, BooksBalance
  <2>3. PICK gone \in Nat :
          /\ gone <= Charge(w, a, Rows(w)) /\ gone <= OpenCredit(a)
          /\ Sum(Lots(a), kept) = OpenCredit(a) - gone
          /\ (\A i \in RowsOf(w, a) : sweep[w].seen[i] = remaining[i])
               => gone = Charge(w, a, Rows(w))
    BY <1>1, <1>s, SweptLots
  <2>4. balance'[a] = Max0(balance[a] - Charge(w, a, Rows(w)))
    BY <1>2
  <2>5. OpenCredit(a)' = OpenCredit(a) - gone
    BY <2>3, <1>12
  <2>6. balance'[a] \in Nat /\ balance'[a] <= OpenCredit(a)'
    BY <2>1, <2>2, <2>3, <2>4, <2>5 DEF Backed, Max0
  <2>7. ASSUME a \notin raced' PROVE balance'[a] = OpenCredit(a)'
    <3>1. a \notin raced /\ \A i \in RowsOf(w, a) : sweep[w].seen[i] = remaining[i]
      BY <2>7, <1>2
    <3>2. balance[a] = OpenCredit(a) /\ gone = Charge(w, a, Rows(w))
      BY <3>1, <2>2, <2>3 DEF Backed
    <3> QED
      BY <3>2, <2>1, <2>3, <2>4, <2>5 DEF Max0
  <2> QED
    BY <2>6, <2>7 DEF Backed
<1>14. balance' \in [Accounts -> Nat]
  <2>1. DOMAIN balance' = Accounts /\ balance' = [a \in Accounts |-> balance'[a]]
    BY <1>2
  <2> QED
    BY <2>1, <1>13
<1>15. /\ ledger' \in Seq(Entry)
       /\ remaining' \in [Entries' -> Nat]
       /\ \A i \in Entries' : remaining'[i] > 0 => ledger'[i].kind \in CreditKinds
       /\ nextExpiry' \in [Accounts -> Nat]
       /\ OneEntryPerKey'
       /\ \A v \in Sweepers : /\ Rows(v) \subseteq Entries'
                              /\ \A i \in Rows(v) :
                                   /\ ledger'[i].kind \in CreditKinds
                                   /\ remaining'[i] <= sweep[v].seen[i]
  <2>1. \A k \in 1..Len(es) : rs[k] > 0 => es[k].kind \in CreditKinds
    BY <1>8
  <2>2. \A k \in 1..Len(es) :
          es[k].key = None \/ (Len(es) = 1 /\ ~KeyUsed(es[k].key))
    BY <1>7
  <2> QED
    BY <1>1, <1>s, <1>7, <1>8, <1>9, <1>10, <2>1, <2>2, WriteInvariant
<1>16. /\ DOMAIN sweep' = Sweepers /\ sweep'[w] = Asleep
       /\ \A v \in Sweepers \ {w} : sweep'[v] = sweep[v]
  BY <1>1, <1>2 DEF TypeOK
<1>17. Rows(w)' = {} /\ \A v \in Sweepers \ {w} : Rows(v)' = Rows(v)
  BY <1>16, AsleepFacts DEF Rows
<1>18. ASSUME NEW v \in Sweepers PROVE SweepTypeOK(v)'
  <2>1. CASE v = w
    BY <2>1, <1>16, <1>17, AsleepFacts DEF SweepTypeOK, Rows
  <2>2. CASE v # w
    <3>1. SweepTypeOK(v)
      BY <1>1 DEF TypeOK, SweepTypeOK
    <3>2. Entries \subseteq Entries'
      BY <1>1, <1>s, <1>7, <1>8, <1>9, <1>10, WriteFacts
    <3> QED
      BY <2>2, <3>1, <3>2, <1>16, SweepTypeKept
  <2> QED
    BY <2>1, <2>2
<1>19. raced' \in SUBSET Accounts
  BY <1>2, <1>3
<1>20. TypeOK'
  BY <1>1, <1>2, <1>14, <1>15, <1>16, <1>18, <1>19 DEF TypeOK, SweepTypeOK
<1>21. CursorOK'
  BY <1>15, <1>16, <1>17 DEF CursorOK
<1>22. Solvent' /\ BooksBalance'
  BY <1>13 DEF Backed, Solvent, BooksBalance
<1> QED
  BY <1>15, <1>20, <1>21, <1>22 DEF IInv

-----------------------------------------------------------------------------
(* The invariant holds initially and every step preserves it.              *)

LEMMA InitInvariant == Init => IInv
<1> SUFFICES ASSUME Init PROVE IInv
  OBVIOUS
<1>1. Entries = {} /\ ledger \in Seq(Entry) /\ remaining \in [Entries -> Nat]
  BY DEF Init, Entries
<1>2. \A a : OpenCredit(a) = 0
  BY <1>1, SumEmpty DEF OpenCredit, Lots
<1>3. Idle \in [req : Requests \cup {None}, at : 0..Horizon]
  BY TimeAssumption DEF Idle
<1>4. /\ DOMAIN sweep = Sweepers
      /\ \A w \in Sweepers : Rows(w) = {} /\ SweepTypeOK(w)
  BY AsleepFacts DEF Init, Rows, SweepTypeOK
<1>5. TypeOK
  BY <1>1, <1>3, <1>4, TimeAssumption DEF Init, TypeOK, SweepTypeOK
<1>6. CursorOK
  BY <1>4 DEF CursorOK
<1>7. OneEntryPerKey
  BY <1>1 DEF OneEntryPerKey
<1>8. Solvent /\ BooksBalance
  BY <1>2 DEF Init, Solvent, BooksBalance
<1> QED
  BY <1>5, <1>6, <1>7, <1>8 DEF IInv

LEMMA StepInvariant == IInv /\ [Next]_vars => IInv'
<1> SUFFICES ASSUME IInv, [Next]_vars PROVE IInv'
  OBVIOUS
<1>t. TypeOK /\ now \in 0..Horizon
  BY DEF IInv, TypeOK
<1>1. ASSUME NEW c \in Callers, NEW r \in Requests, Begin(c, r) PROVE IInv'
  <2>1. pending' = [pending EXCEPT ![c] = [req |-> r, at |-> now]]
    BY <1>1 DEF Begin
  <2>2. UNCHANGED <<ledger, remaining, balance, nextExpiry, now, sweep, raced>>
    BY <1>1 DEF Begin
  <2> QED
    BY <1>t, <2>1, <2>2, CursorsKept, ReadStep
<1>2. ASSUME NEW c \in Callers, Collide(c) \/ Refuse(c) PROVE IInv'
  <2>1. pending' = [pending EXCEPT ![c] = Idle]
    BY <1>2 DEF Collide, Refuse
  <2>2. UNCHANGED <<ledger, remaining, balance, nextExpiry, now, sweep, raced>>
    BY <1>2 DEF Collide, Refuse
  <2> QED
    BY <1>t, <2>1, <2>2, CursorsKept, ReadStep
<1>3. ASSUME Tick PROVE IInv'
  <2>1. now' \in 0..Horizon
    BY <1>t, <1>3, TimeAssumption DEF Tick
  <2>2. UNCHANGED <<ledger, remaining, balance, nextExpiry, pending, sweep, raced>>
    BY <1>3 DEF Tick
  <2> QED
    BY <2>1, <2>2, CursorsKept, ReadStep
<1>4. ASSUME UNCHANGED vars PROVE IInv'
  <2>1. UNCHANGED <<ledger, remaining, balance, nextExpiry, now, pending, sweep, raced>>
    BY <1>4 DEF vars
  <2> QED
    BY <1>t, <2>1, CursorsKept, ReadStep
<1> QED
  BY <1>1, <1>2, <1>3, <1>4, CreditStep, DebitStep, MergeStep,
     SweepOpenStep, SweepLockStep, SweepCommitStep, SweepAbortStep DEF Next

THEOREM Invariance == Spec => []IInv
<1>1. Init => IInv
  BY InitInvariant
<1>2. IInv /\ [Next]_vars => IInv'
  BY StepInvariant
<1> QED
  BY <1>1, <1>2, PTL DEF Spec

(* Every variable keeps its type (TypeOK).                                 *)
THEOREM TypeCorrect == Spec => []TypeOK
<1>1. IInv => TypeOK
  BY DEF IInv
<1> QED
  BY <1>1, Invariance, PTL

(* A request moves points at most once (credit_account, debit_account and  *)
(* the unique index on the idempotency key), whoever retries it.           *)
THEOREM KeysUnique == Spec => []OneEntryPerKey
<1>1. IInv => OneEntryPerKey
  BY DEF IInv
<1> QED
  BY <1>1, Invariance, PTL

(* No interleaving of credits, debits, merges and expiry sweeps lets a     *)
(* customer's balance exceed what the open lots hold.                      *)
THEOREM Solvency == Spec => []Solvent
<1>1. IInv => Solvent
  BY DEF IInv
<1> QED
  BY <1>1, Invariance, PTL

(* The three together, which is what the run checks.                       *)
THEOREM AppliedOnceAndCovered == Spec => []OnceAndCovered
<1>1. IInv => OnceAndCovered
  BY DEF IInv, OnceAndCovered
<1> QED
  BY <1>1, Invariance, PTL

(* An account that no sweep has charged a stale amount has a balance that  *)
(* is exactly what its open lots hold.                                     *)
THEOREM BooksStayBalanced == Spec => []BooksBalance
<1>1. IInv => BooksBalance
  BY DEF IInv
<1> QED
  BY <1>1, Invariance, PTL

-----------------------------------------------------------------------------
(* balance_after.  The proofs speak of a ledger l and balances b, so that  *)
(* they can be used before and after a step.                               *)

Mine(l, n, a) == {i \in 1..n : l[i].acct = a}
Latest(l, S) == IF S = {} THEN 0 ELSE l[CHOOSE i \in S : \A j \in S : j <= i].after

Runs(l, b) ==
  /\ \A k \in 1..Len(l) :
       l[k].after = Max0(Latest(l, Mine(l, k - 1, l[k].acct)) + l[k].amount)
  /\ \A a \in Accounts : b[a] = Latest(l, Mine(l, Len(l), a))

LEMMA RunsNow == RunningBalance <=> Runs(ledger, balance)
BY DEF RunningBalance, Runs, PreviousOf, AfterOf, Mine, Latest, Entries

LEMMA RunsNext == Runs(ledger', balance') => RunningBalance'
BY DEF RunningBalance, Runs, PreviousOf, AfterOf, Mine, Latest, Entries

LEMMA LatestIs ==
  ASSUME NEW l, NEW S \in SUBSET Nat, NEW m \in S, \A j \in S : j <= m
  PROVE  Latest(l, S) = l[m].after
<1>1. \A i \in S : (\A j \in S : j <= i) => i = m
  OBVIOUS
<1>2. (CHOOSE i \in S : \A j \in S : j <= i) = m
  BY <1>1
<1> QED
  BY <1>2 DEF Latest

(* The entries after the j-th of es, and up to the k-th, are of other      *)
(* accounts than a.                                                        *)
Quiet(es, a, j, k) == \A m \in 1..Len(es) : j < m /\ m <= k => es[m].acct # a

(* The place in es of the last entry of account a up to the k-th, or 0.    *)
LastOf(es, a, j, k) ==
  /\ j \in 0..k
  /\ j > 0 => es[j].acct = a
  /\ Quiet(es, a, j, k)

LEMMA LastOfExists ==
  ASSUME NEW es \in Seq(Entry), NEW a, NEW k \in 0..Len(es)
  PROVE  \E j : LastOf(es, a, j, k)
<1> DEFINE S == Mine(es, k, a)
<1>1. Len(es) \in Nat /\ k \in Nat
  OBVIOUS
<1>2. CASE S = {}
  <2>1. LastOf(es, a, 0, k)
    BY <1>1, <1>2 DEF LastOf, Quiet, Mine
  <2> QED
    BY <2>1
<1>3. CASE S # {}
  <2>1. S \in SUBSET (1..k)
    BY DEF Mine
  <2>2. PICK m \in S : \A j \in S : j <= m
    BY <1>1, <1>3, <2>1, GreatestOf
  <2>3. m \in 1..k /\ es[m].acct = a
    BY DEF Mine
  <2>4. \A i \in 1..Len(es) : m < i /\ i <= k => es[i].acct # a
    BY <1>1, <2>2, <2>3 DEF Mine
  <2>5. LastOf(es, a, m, k)
    BY <1>1, <2>3, <2>4 DEF LastOf, Quiet
  <2> QED
    BY <2>5
<1> QED
  BY <1>2, <1>3

(* What account a holds after the j-th of the entries es, its last so far. *)
Held(b, es, a, j) == IF j = 0 THEN b[a] ELSE es[j].after

LEMMA HeldIsLatest ==
  ASSUME NEW l \in Seq(Entry), NEW es \in Seq(Entry), NEW b, Runs(l, b),
         NEW a \in Accounts, NEW k \in 0..Len(es), NEW j, LastOf(es, a, j, k)
  PROVE  Latest(l \o es, Mine(l \o es, Len(l) + k, a)) = Held(b, es, a, j)
<1> DEFINE L == Len(l)
           m == l \o es
           S == Mine(m, L + k, a)
<1>1. /\ L \in Nat /\ Len(es) \in Nat /\ k \in Nat /\ j \in 0..k
      /\ \A i \in 1..L : m[i] = l[i]
      /\ \A i \in 1..Len(es) : m[L + i] = es[i]
  BY DEF LastOf
<1> HIDE DEF L, m
<1>2. S \in SUBSET Nat
  BY <1>1 DEF Mine
<1>3. \A i \in 1..L + k : i \in 1..L \/ (i - L \in 1..k /\ i = L + (i - L))
  BY <1>1
<1>4. \A i \in S : i > L => i - L <= j
  <2> SUFFICES ASSUME NEW i \in S, i > L, i - L > j PROVE FALSE
    BY <1>1, <1>2
  <2>1. i \in 1..L + k /\ m[i].acct = a
    BY DEF Mine
  <2>2. i - L \in 1..Len(es) /\ i - L <= k /\ m[L + (i - L)] = es[i - L] /\ i = L + (i - L)
    BY <2>1, <1>1, <1>3
  <2>3. es[i - L].acct # a
    BY <2>2 DEF LastOf, Quiet
  <2> QED
    BY <2>1, <2>2, <2>3
<1>5. CASE j > 0
  <2>1. m[L + j] = es[j] /\ es[j].acct = a /\ L + j \in 1..L + k
    BY <1>1, <1>5 DEF LastOf
  <2>2. L + j \in S
    BY <2>1 DEF Mine
  <2>3. \A i \in S : i <= L + j
    BY <1>1, <1>2, <1>4
  <2>4. Latest(m, S) = m[L + j].after
    BY <1>2, <2>2, <2>3, LatestIs
  <2>5. Held(b, es, a, j) = es[j].after
    BY <1>5, <1>1 DEF Held
  <2> QED
    BY <2>1, <2>4, <2>5 DEF L, m
<1>6. CASE j = 0
  <2>1. S = Mine(l, L, a)
    <3>1. \A i \in S : i \in 1..L
      BY <1>1, <1>2, <1>3, <1>4, <1>6 DEF Mine
    <3>2. \A i \in 1..L : i \in 1..L + k
      BY <1>1
    <3> QED
      BY <1>1, <3>1, <3>2 DEF Mine
  <2>2. Latest(m, S) = Latest(l, S)
    <3>1. CASE S = {}
      BY <3>1 DEF Latest
    <3>2. CASE S # {}
      <4>1. S \in SUBSET (1..L)
        BY <2>1 DEF Mine
      <4>2. PICK x \in S : \A y \in S : y <= x
        BY <1>1, <3>2, <4>1, GreatestOf
      <4>3. m[x] = l[x]
        BY <1>1, <4>1
      <4> QED
        BY <1>2, <4>2, <4>3, LatestIs
    <3> QED
      BY <3>1, <3>2
  <2>3. b[a] = Latest(l, Mine(l, L, a))
    BY DEF Runs, L
  <2>4. Held(b, es, a, j) = b[a]
    BY <1>6 DEF Held
  <2> QED
    BY <2>1, <2>2, <2>3, <2>4 DEF L, m
<1> QED
  BY <1>1, <1>5, <1>6

(* The running total survives an append whose entries each follow from the *)
(* last one of the account, the last of them being the new balance.        *)
Follows(b, es, c) ==
  /\ \A k \in 1..Len(es) : \A j :
       LastOf(es, es[k].acct, j, k - 1) =>
         es[k].after = Max0(Held(b, es, es[k].acct, j) + es[k].amount)
  /\ \A a \in Accounts : \A j :
       LastOf(es, a, j, Len(es)) => c[a] = Held(b, es, a, j)

LEMMA RunsOn ==
  ASSUME NEW l \in Seq(Entry), NEW es \in Seq(Entry), NEW b, NEW c,
         Runs(l, b), Follows(b, es, c)
  PROVE  Runs(l \o es, c)
<1> DEFINE L == Len(l)
           m == l \o es
<1>1. /\ L \in Nat /\ Len(es) \in Nat /\ Len(m) = L + Len(es)
      /\ \A i \in 1..L : m[i] = l[i]
      /\ \A i \in 1..Len(es) : m[L + i] = es[i]
      /\ \A i \in 1..Len(es) : es[i] \in Entry
  OBVIOUS
<1>2. ASSUME NEW a \in Accounts, NEW k \in 0..Len(es), NEW j, LastOf(es, a, j, k)
      PROVE  Latest(m, Mine(m, L + k, a)) = Held(b, es, a, j)
  BY <1>2, HeldIsLatest
<1> HIDE DEF L, m
<1>3. ASSUME NEW a \in Accounts PROVE c[a] = Latest(m, Mine(m, Len(m), a))
  <2>1. Len(es) \in 0..Len(es)
    BY <1>1
  <2>2. PICK j : LastOf(es, a, j, Len(es))
    BY <2>1, LastOfExists
  <2>3. Latest(m, Mine(m, L + Len(es), a)) = Held(b, es, a, j)
    BY <1>2, <2>1, <2>2
  <2>4. c[a] = Held(b, es, a, j)
    BY <2>2 DEF Follows
  <2> QED
    BY <1>1, <2>3, <2>4
<1>4. ASSUME NEW k \in 1..Len(es)
      PROVE  es[k].after = Max0(Latest(m, Mine(m, L + k - 1, es[k].acct)) + es[k].amount)
  <2> DEFINE a == es[k].acct
  <2>1. k - 1 \in 0..Len(es) /\ L + k - 1 = L + (k - 1)
    BY <1>1
  <2>2. a \in Accounts
    BY <1>1 DEF Entry
  <2>3. PICK j : LastOf(es, a, j, k - 1)
    BY <2>1, LastOfExists
  <2>4. Latest(m, Mine(m, L + (k - 1), a)) = Held(b, es, a, j)
    BY <1>2, <2>1, <2>2, <2>3
  <2>5. es[k].after = Max0(Held(b, es, a, j) + es[k].amount)
    BY <2>3 DEF Follows
  <2> QED
    BY <2>1, <2>4, <2>5
<1>5. ASSUME NEW k \in 1..L
      PROVE  m[k].after = Max0(Latest(m, Mine(m, k - 1, m[k].acct)) + m[k].amount)
  <2> DEFINE S == Mine(l, k - 1, l[k].acct)
  <2>1. \A i \in 1..k - 1 : i \in 1..L
    BY <1>1
  <2>2. Mine(m, k - 1, m[k].acct) = S
    BY <1>1, <2>1 DEF Mine
  <2>3. l[k].after = Max0(Latest(l, S) + l[k].amount)
    BY DEF Runs, L
  <2>4. Latest(m, S) = Latest(l, S)
    <3>1. CASE S = {}
      BY <3>1 DEF Latest
    <3>2. CASE S # {}
      <4>1. S \in SUBSET (1..k - 1) /\ k - 1 \in Nat
        BY <1>1 DEF Mine
      <4>2. PICK x \in S : \A y \in S : y <= x
        BY <3>2, <4>1, GreatestOf
      <4>3. m[x] = l[x] /\ S \in SUBSET Nat
        BY <1>1, <2>1, <4>1
      <4> QED
        BY <4>2, <4>3, LatestIs
    <3> QED
      BY <3>1, <3>2
  <2> HIDE DEF S
  <2> QED
    BY <1>1, <2>2, <2>3, <2>4
<1>6. ASSUME NEW k \in 1..Len(m)
      PROVE  m[k].after = Max0(Latest(m, Mine(m, k - 1, m[k].acct)) + m[k].amount)
  <2>1. CASE k \in 1..L
    BY <2>1, <1>5
  <2>2. CASE k \notin 1..L
    <3>1. k - L \in 1..Len(es) /\ k = L + (k - L)
      BY <1>1, <2>2
    <3>2. m[k] = es[k - L] /\ L + (k - L) - 1 = k - 1
      BY <1>1, <3>1
    <3>3. es[k - L].after
            = Max0(Latest(m, Mine(m, L + (k - L) - 1, es[k - L].acct)) + es[k - L].amount)
      BY <1>4, <3>1
    <3> QED
      BY <3>2, <3>3
  <2> QED
    BY <2>1, <2>2
<1>7. Runs(m, c)
  BY <1>3, <1>6 DEF Runs
<1> QED
  BY <1>7 DEF m

LEMMA OneFollows ==
  ASSUME NEW e \in Entry, NEW b, NEW c,
         e.after = Max0(b[e.acct] + e.amount),
         c[e.acct] = e.after, \A x \in Accounts \ {e.acct} : c[x] = b[x]
  PROVE  Follows(b, <<e>>, c)
<1> DEFINE es == <<e>>
<1>1. Len(es) = 1 /\ es[1] = e
  OBVIOUS
<1> HIDE DEF es
<1>2. ASSUME NEW k \in 1..Len(es), NEW j, LastOf(es, es[k].acct, j, k - 1)
      PROVE  es[k].after = Max0(Held(b, es, es[k].acct, j) + es[k].amount)
  <2>1. k = 1 /\ j = 0
    BY <1>1, <1>2 DEF LastOf
  <2> QED
    BY <1>1, <2>1 DEF Held
<1>3. ASSUME NEW a \in Accounts, NEW j, LastOf(es, a, j, Len(es))
      PROVE  c[a] = Held(b, es, a, j)
  <2>1. j \in 0..1 /\ (j = 0 => a # e.acct) /\ (j = 1 => a = e.acct)
    BY <1>1, <1>3 DEF LastOf, Quiet
  <2> QED
    BY <1>1, <2>1 DEF Held
<1> QED
  BY <1>2, <1>3 DEF Follows, es

LEMMA TwoFollow ==
  ASSUME NEW d \in Entry, NEW e \in Entry, NEW b, NEW c, d.acct # e.acct,
         d.after = Max0(b[d.acct] + d.amount),
         e.after = Max0(b[e.acct] + e.amount),
         c[d.acct] = d.after, c[e.acct] = e.after,
         \A x \in Accounts \ {d.acct, e.acct} : c[x] = b[x]
  PROVE  Follows(b, <<d, e>>, c)
<1> DEFINE es == <<d, e>>
<1>1. Len(es) = 2 /\ es[1] = d /\ es[2] = e
  OBVIOUS
<1> HIDE DEF es
<1>2. ASSUME NEW k \in 1..Len(es), NEW j, LastOf(es, es[k].acct, j, k - 1)
      PROVE  es[k].after = Max0(Held(b, es, es[k].acct, j) + es[k].amount)
  <2>1. CASE k = 1
    <3>1. j = 0
      BY <2>1, <1>2 DEF LastOf
    <3> QED
      BY <1>1, <2>1, <3>1 DEF Held
  <2>2. CASE k = 2
    <3>1. j \in 0..1 /\ (j > 0 => es[j].acct = e.acct)
      BY <1>1, <2>2, <1>2 DEF LastOf
    <3>2. j = 0
      BY <1>1, <3>1
    <3> QED
      BY <1>1, <2>2, <3>2 DEF Held
  <2> QED
    BY <1>1, <2>1, <2>2
<1>3. ASSUME NEW a \in Accounts, NEW j, LastOf(es, a, j, Len(es))
      PROVE  c[a] = Held(b, es, a, j)
  <2>1. /\ j \in 0..2 /\ (j > 0 => es[j].acct = a)
        /\ \A m \in 1..2 : j < m => es[m].acct # a
    BY <1>1, <1>3 DEF LastOf, Quiet
  <2>2. CASE j = 0
    <3>1. a # d.acct /\ a # e.acct
      BY <1>1, <2>1, <2>2
    <3> QED
      BY <2>2, <3>1 DEF Held
  <2>3. CASE j = 1
    BY <1>1, <2>1, <2>3 DEF Held
  <2>4. CASE j = 2
    BY <1>1, <2>1, <2>4 DEF Held
  <2> QED
    BY <2>1, <2>2, <2>3, <2>4
<1> QED
  BY <1>2, <1>3 DEF Follows, es

(* A write refreshes the next expiry date of every account it touches.     *)
LEMMA WriteNextExpiry ==
  ASSUME TypeOK, NextExpiryExact,
         NEW es \in Seq(Entry), NEW rs \in [1..Len(es) -> Nat],
         NEW kept \in [Entries -> Nat], NEW A \in SUBSET Accounts,
         Write(es, rs, kept, A),
         \A i \in Entries : ledger[i].acct \notin A => kept[i] = remaining[i],
         \A k \in 1..Len(es) : es[k].acct \in A
  PROVE  NextExpiryExact'
<1>1. /\ ledger' \in Seq(Entry)
      /\ Entries \subseteq Entries'
      /\ \A i \in Entries : ledger'[i] = ledger[i] /\ remaining'[i] = kept[i]
      /\ \A k \in 1..Len(es) : ledger'[Len(ledger) + k] = es[k]
      /\ \A i \in Entries' \ Entries :
           i - Len(ledger) \in 1..Len(es) /\ i = Len(ledger) + (i - Len(ledger))
      /\ remaining' \in [Entries' -> Nat]
  BY WriteFacts
<1>2. remaining' \in [1..Len(ledger') -> Nat] /\ Entries' = 1..Len(ledger')
  BY <1>1 DEF Entries
<1>3. nextExpiry' = Refreshed(A, ledger', remaining')
  BY DEF Write
<1>4. ASSUME NEW a \in A PROVE IsNextExpiry(ledger', remaining', a, nextExpiry'[a])
  <2>1. nextExpiry'[a] = NextExpiry(ledger', remaining', a)
    BY <1>3 DEF Refreshed
  <2> QED
    BY <1>1, <1>2, <2>1, NextExpiryDefined
<1>5. ASSUME NEW a \in Accounts \ A
      PROVE  IsNextExpiry(ledger', remaining', a, nextExpiry'[a])
  <2>1. nextExpiry'[a] = nextExpiry[a]
    BY <1>3 DEF Refreshed
  <2>2. IsNextExpiry(ledger, remaining, a, nextExpiry[a])
    BY DEF NextExpiryExact
  <2>3. \A i \in Entries' : ledger'[i].acct = a => i \in Entries
    BY <1>1
  <2>4. \A i \in Entries : /\ ledger'[i] = ledger[i]
                           /\ ledger[i].acct = a => remaining'[i] = remaining[i]
    BY <1>1
  <2>5. {i \in 1..Len(ledger') : ledger'[i].acct = a /\ remaining'[i] > 0}
          = {i \in 1..Len(ledger) : ledger[i].acct = a /\ remaining[i] > 0}
    BY <1>1, <1>2, <2>3, <2>4 DEF Entries
  <2>6. \A i \in 1..Len(ledger) : ledger'[i] = ledger[i]
    BY <2>4 DEF Entries
  <2> QED
    BY <2>1, <2>2, <2>5, <2>6 DEF IsNextExpiry
<1> QED
  BY <1>4, <1>5 DEF NextExpiryExact

(* The two together: what a write has to show to keep the caches exact.    *)
LEMMA WriteCaches ==
  ASSUME TypeOK, CachesExact,
         NEW es \in Seq(Entry), NEW rs \in [1..Len(es) -> Nat],
         NEW kept \in [Entries -> Nat], NEW A \in SUBSET Accounts,
         Write(es, rs, kept, A),
         \A i \in Entries : ledger[i].acct \notin A => kept[i] = remaining[i],
         \A k \in 1..Len(es) : es[k].acct \in A,
         Follows(balance, es, balance')
  PROVE  CachesExact'
<1>1. NextExpiryExact'
  BY WriteNextExpiry DEF CachesExact
<1>2. Runs(ledger, balance) /\ ledger \in Seq(Entry) /\ ledger' = ledger \o es
  BY RunsNow DEF CachesExact, TypeOK, Write
<1>3. Runs(ledger', balance')
  BY <1>2, RunsOn
<1> QED
  BY <1>1, <1>3, RunsNext DEF CachesExact

LEMMA DebitTouches ==
  ASSUME NEW a, NEW d
  PROVE  \A i \in Entries : ledger[i].acct # a => AfterDebit(a, d)[i] = remaining[i]
BY DEF AfterDebit, Lots

LEMMA CreditCaches ==
  ASSUME IInv, CachesExact,
         NEW c \in Callers, NEW life \in Lifetimes \cup {Never}, Credit(c, life)
  PROVE  CachesExact'
<1>1. TypeOK
  BY DEF IInv
<1>2. pending[c] # Idle
  BY DEF Credit
<1>r. PICK r, a, n : r = pending[c].req /\ a = Op[r].acct /\ n = Op[r].amount
  OBVIOUS
<1>e. PICK e : e = [acct |-> a, kind |-> "earn", amount |-> n,
                    after |-> balance[a] + n,
                    expires |-> ExpiresAt(pending[c].at, life), key |-> r]
  OBVIOUS
<1>s. PICK es, rs : es = <<e>> /\ rs = <<n>>
  OBVIOUS
<1>3. r \in Requests /\ a \in Accounts /\ n \in Nat \ {0}
  BY <1>1, <1>2, <1>r, PendingRequest
<1>4. ExpiresAt(pending[c].at, life) \in Nat
  BY <1>1, <1>2, PendingRequest, ExpiresAtNat
<1>5. balance \in [Accounts -> Nat] /\ remaining \in [Entries -> Nat]
  BY <1>1 DEF TypeOK
<1>6. e \in Entry /\ e.acct = a /\ e.after = balance[a] + n /\ e.amount = n
  BY <1>e, <1>3, <1>4, <1>5 DEF Entry, Kinds, CreditKinds
<1>7. es \in Seq(Entry) /\ Len(es) = 1 /\ es[1] = e
  BY <1>6, <1>s
<1>8. rs \in [1..Len(es) -> Nat]
  BY <1>3, <1>7, <1>s
<1>9. /\ Write(es, rs, remaining, {a})
      /\ balance' = [balance EXCEPT ![a] = @ + n]
  BY <1>r, <1>e, <1>s DEF Credit
<1>10. Follows(balance, es, balance')
  <2>1. e.after = Max0(balance[e.acct] + e.amount)
    BY <1>3, <1>5, <1>6 DEF Max0
  <2>2. balance'[e.acct] = e.after /\ \A x \in Accounts \ {e.acct} : balance'[x] = balance[x]
    BY <1>3, <1>5, <1>6, <1>9
  <2> QED
    BY <1>6, <1>s, <2>1, <2>2, OneFollows
<1>11. {a} \in SUBSET Accounts /\ \A k \in 1..Len(es) : es[k].acct \in {a}
  BY <1>3, <1>6, <1>7
<1>12. \A i \in Entries : ledger[i].acct \notin {a} => remaining[i] = remaining[i]
  OBVIOUS
<1> QED
  BY <1>1, <1>5, <1>7, <1>8, <1>9, <1>10, <1>11, <1>12, WriteCaches

LEMMA DebitCaches ==
  ASSUME IInv, CachesExact, NEW c \in Callers, Debit(c)
  PROVE  CachesExact'
<1>1. TypeOK
  BY DEF IInv
<1>2. pending[c] # Idle
  BY DEF Debit
<1>r. PICK r, a, d : r = pending[c].req /\ a = Op[r].acct /\ d = Op[r].amount
  OBVIOUS
<1>3. r \in Requests /\ a \in Accounts /\ d \in Nat \ {0}
  BY <1>1, <1>2, <1>r, PendingRequest
<1>e. PICK e : e = [acct |-> a, kind |-> "redeem", amount |-> -d,
                    after |-> balance[a] - d, expires |-> Never, key |-> r]
  OBVIOUS
<1>s. PICK es, rs, kept : es = <<e>> /\ rs = <<0>> /\ kept = AfterDebit(a, d)
  OBVIOUS
<1>5. balance \in [Accounts -> Nat]
  BY <1>1 DEF TypeOK
<1>9. /\ balance[a] >= d
      /\ Write(es, rs, kept, {a})
      /\ balance' = [balance EXCEPT ![a] = @ - d]
  BY <1>r, <1>e, <1>s DEF Debit
<1>6. e \in Entry /\ e.acct = a /\ e.after = balance[a] - d /\ e.amount = -d
  BY <1>e, <1>3, <1>5, <1>9, TimeAssumption DEF Entry, Kinds, DebitKinds
<1>7. es \in Seq(Entry) /\ Len(es) = 1 /\ es[1] = e
  BY <1>6, <1>s
<1>8. rs \in [1..Len(es) -> Nat]
  BY <1>7, <1>s
<1>10. Follows(balance, es, balance')
  <2>1. e.after = Max0(balance[e.acct] + e.amount)
    BY <1>3, <1>5, <1>6, <1>9 DEF Max0
  <2>2. balance'[e.acct] = e.after /\ \A x \in Accounts \ {e.acct} : balance'[x] = balance[x]
    BY <1>3, <1>5, <1>6, <1>9
  <2> QED
    BY <1>6, <1>s, <2>1, <2>2, OneFollows
<1>11. {a} \in SUBSET Accounts /\ \A k \in 1..Len(es) : es[k].acct \in {a}
  BY <1>3, <1>6, <1>7
<1>12. /\ kept \in [Entries -> Nat]
       /\ \A i \in Entries : ledger[i].acct \notin {a} => kept[i] = remaining[i]
  BY <1>1, <1>3, <1>s, DebitFacts, DebitTouches
<1> QED
  BY <1>1, <1>7, <1>8, <1>9, <1>10, <1>11, <1>12, WriteCaches

LEMMA MergeCaches ==
  ASSUME IInv, CachesExact, NEW from \in Accounts, NEW to \in Accounts,
         NEW life \in Lifetimes \cup {Never}, Merge(from, to, life)
  PROVE  CachesExact'
<1>1. TypeOK
  BY DEF IInv
<1>n. PICK n, out, in :
        /\ n = balance[from]
        /\ out = [acct |-> from, kind |-> "transfer_out", amount |-> -n, after |-> 0,
                  expires |-> Never, key |-> None]
        /\ in = [acct |-> to, kind |-> "transfer_in", amount |-> n,
                 after |-> balance[to] + n, expires |-> ExpiresAt(now, life),
                 key |-> None]
  OBVIOUS
<1>s. PICK es, rs, kept : /\ es = <<out, in>> /\ rs = <<0, n>>
                          /\ kept = AfterDebit(from, n)
  OBVIOUS
<1>3. balance \in [Accounts -> Nat] /\ n \in Nat /\ now \in 0..Horizon
  BY <1>1, <1>n DEF TypeOK
<1>9. /\ from # to
      /\ Write(es, rs, kept, {from, to})
      /\ balance' = [balance EXCEPT ![from] = 0, ![to] = @ + n]
  BY <1>n, <1>s DEF Merge
<1>6. out \in Entry /\ in \in Entry
  <2>1. ExpiresAt(now, life) \in Nat
    BY <1>3, ExpiresAtNat
  <2> QED
    BY <1>n, <1>3, <2>1, TimeAssumption DEF Entry, Kinds, DebitKinds, CreditKinds
<1>f. /\ out.acct = from /\ out.after = 0 /\ out.amount = -n
      /\ in.acct = to /\ in.after = balance[to] + n /\ in.amount = n
  BY <1>n
<1>7. es \in Seq(Entry) /\ Len(es) = 2 /\ es[1] = out /\ es[2] = in
  BY <1>6, <1>s
<1>8. rs \in [1..Len(es) -> Nat]
  BY <1>3, <1>7, <1>s
<1>10. Follows(balance, es, balance')
  <2>1. out.after = Max0(balance[out.acct] + out.amount)
    BY <1>n, <1>f, <1>3 DEF Max0
  <2>2. in.after = Max0(balance[in.acct] + in.amount)
    BY <1>f, <1>3 DEF Max0
  <2>3. balance'[out.acct] = out.after /\ balance'[in.acct] = in.after
    BY <1>f, <1>3, <1>9
  <2>4. \A x \in Accounts \ {out.acct, in.acct} : balance'[x] = balance[x]
    BY <1>f, <1>3, <1>9
  <2> QED
    BY <1>6, <1>f, <1>9, <1>s, <2>1, <2>2, <2>3, <2>4, TwoFollow
<1>11. {from, to} \in SUBSET Accounts /\ \A k \in 1..Len(es) : es[k].acct \in {from, to}
  BY <1>f, <1>7
<1>12. /\ kept \in [Entries -> Nat]
       /\ \A i \in Entries : ledger[i].acct \notin {from, to} => kept[i] = remaining[i]
  BY <1>1, <1>3, <1>s, DebitFacts, DebitTouches
<1> QED
  BY <1>1, <1>7, <1>8, <1>9, <1>10, <1>11, <1>12, WriteCaches

(* The rows a sweep has charged after k rounds of its loop.                *)
Done(o, k) == {o[m] : m \in 1..k}

LEMMA CursorOrder ==
  ASSUME TypeOK, CursorOK, NEW w \in Sweepers, NEW o \in CursorOrders(w)
  PROVE  /\ Len(o) \in Nat
         /\ \A k \in 1..Len(o) : o[k] \in Rows(w)
         /\ \A m, n \in 1..Len(o) : m < n => o[m] # o[n]
         /\ Done(o, Len(o)) = Rows(w)
<1> DEFINE N == Cardinality(Rows(w))
<1>1. IsFiniteSet(Rows(w)) /\ N \in Nat
  BY CursorRows, FS_CardinalityType
<1>2. o \in [1..N -> Rows(w)] /\ \A m, n \in 1..N : m < n => o[m] # o[n]
  BY DEF CursorOrders
<1> HIDE DEF N
<1>3. Len(o) = N
  <2>1. o \in Seq(Rows(w))
    BY <1>1, <1>2
  <2> QED
    BY <1>1, <1>2, <2>1
<1>4. o \in Injection(1..N, Rows(w))
  <2>1. \A m, n \in 1..N : o[m] = o[n] => m = n
    BY <1>1, <1>2
  <2> QED
    BY <1>2, <2>1 DEF Injection, IsInjective
<1>5. Cardinality(1..N) = Cardinality(Rows(w))
  BY <1>1, FS_Interval DEF N
<1>6. o \in Surjection(1..N, Rows(w))
  BY <1>1, <1>4, <1>5, FS_Injection
<1>7. Done(o, N) = Rows(w)
  BY <1>2, <1>6 DEF Done, Surjection
<1> QED
  BY <1>1, <1>2, <1>3, <1>7

(* Between two rows of an account the sweep charges the account nothing.   *)
LEMMA ChargeSame ==
  ASSUME NEW w, NEW o, NEW a, NEW k \in Nat, NEW j \in 0..k,
         \A m \in 1..k : o[m] \in Rows(w),
         \A m \in 1..k : j < m => ledger[o[m]].acct # a
  PROVE  Charge(w, a, Done(o, k)) = Charge(w, a, Done(o, j))
<1>1. Done(o, k) \cap RowsOf(w, a) = Done(o, j) \cap RowsOf(w, a)
  <2>1. ASSUME NEW i \in Done(o, k), i \in RowsOf(w, a) PROVE i \in Done(o, j)
    <3>1. PICK m \in 1..k : i = o[m]
      BY DEF Done
    <3>2. ledger[o[m]].acct = a
      BY <2>1, <3>1 DEF RowsOf
    <3>3. m \in 1..j
      BY <3>2
    <3> QED
      BY <3>1, <3>3 DEF Done
  <2>2. Done(o, j) \subseteq Done(o, k)
    <3>1. 1..j \subseteq 1..k
      OBVIOUS
    <3> QED
      BY <3>1 DEF Done
  <2> QED
    BY <2>1, <2>2
<1> QED
  BY <1>1 DEF Charge

LEMMA ChargeMore ==
  ASSUME TypeOK, CursorOK, NEW w \in Sweepers, NEW o \in CursorOrders(w),
         NEW k \in 1..Len(o)
  PROVE  Charge(w, ledger[o[k]].acct, Done(o, k))
           = Charge(w, ledger[o[k]].acct, Done(o, k - 1)) + sweep[w].seen[o[k]]
<1> DEFINE a == ledger[o[k]].acct
           D == Done(o, k - 1) \cap RowsOf(w, a)
           seen == sweep[w].seen
<1>1. /\ Len(o) \in Nat /\ o[k] \in Rows(w)
      /\ \A m \in 1..k - 1 : o[m] # o[k]
  BY CursorOrder
<1>2. Done(o, k) = Done(o, k - 1) \cup {o[k]} /\ o[k] \notin Done(o, k - 1)
  <2>1. 1..k = (1..k - 1) \cup {k}
    BY <1>1
  <2> QED
    BY <1>1, <2>1 DEF Done
<1>3. o[k] \in RowsOf(w, a)
  BY <1>1 DEF RowsOf
<1>4. Done(o, k) \cap RowsOf(w, a) = D \cup {o[k]} /\ D \cap {o[k]} = {}
  BY <1>2, <1>3
<1>5. IsFiniteSet(D) /\ IsFiniteSet({o[k]})
  <2>1. IsFiniteSet(RowsOf(w, a)) /\ D \subseteq RowsOf(w, a)
    BY CursorRows
  <2> HIDE DEF D
  <2> QED
    BY <2>1, FS_Subset, FS_Singleton
<1>6. \A i \in D \cup {o[k]} : seen[i] \in Nat
  BY <1>1, CursorRows DEF RowsOf
<1>7. Sum(D \cup {o[k]}, seen) = Sum(D, seen) + Sum({o[k]}, seen)
  BY <1>4, <1>5, <1>6, SumDisjoint
<1>8. Sum({o[k]}, seen) = seen[o[k]]
  BY <1>6, SumSingleton
<1> QED
  BY <1>4, <1>7, <1>8 DEF Charge

LEMMA ClampTwice ==
  ASSUME NEW x \in Nat, NEW y \in Nat, NEW z \in Nat
  PROVE  Max0(Max0(x - y) + (-z)) = Max0(x - (y + z))
BY DEF Max0

LEMMA SweepFollows ==
  ASSUME TypeOK, CursorOK, NEW w \in Sweepers, NEW o \in CursorOrders(w),
         NEW es, es = [k \in 1..Len(o) |-> ExpireEntry(w, o, k)],
         Len(es) = Len(o),
         NEW c, \A a \in Accounts : c[a] = Max0(balance[a] - Charge(w, a, Rows(w))),
         \A i \in Entries : ledger[i].acct \in Accounts
  PROVE  Follows(balance, es, c)
<1>1. /\ balance \in [Accounts -> Nat]
      /\ Rows(w) \subseteq Entries /\ sweep[w].seen \in [Rows(w) -> Nat]
  BY DEF TypeOK
<1>2. /\ Len(o) \in Nat /\ Done(o, Len(o)) = Rows(w)
      /\ \A k \in 1..Len(o) : /\ o[k] \in Rows(w) /\ ledger[o[k]].acct \in Accounts
                              /\ sweep[w].seen[o[k]] \in Nat
  BY <1>1, CursorOrder
<1>3. \A k \in 1..Len(o) :
        /\ es[k].acct = ledger[o[k]].acct
        /\ es[k].amount = -sweep[w].seen[o[k]]
        /\ es[k].after = Max0(balance[es[k].acct] - Charge(w, es[k].acct, Done(o, k)))
  BY DEF ExpireEntry, Done
<1>4. ASSUME NEW a \in Accounts, NEW k \in 0..Len(o), NEW j, LastOf(es, a, j, k)
      PROVE  Held(balance, es, a, j) = Max0(balance[a] - Charge(w, a, Done(o, k)))
  <2>1. j \in 0..k /\ k \in Nat /\ \A m \in 1..k : m \in 1..Len(o)
    BY <1>2, <1>4 DEF LastOf
  <2>2. \A m \in 1..k : j < m => ledger[o[m]].acct # a
    <3>1. \A m \in 1..Len(es) : j < m /\ m <= k => es[m].acct # a
      BY <1>4 DEF LastOf, Quiet
    <3>2. \A m \in 1..k : m \in 1..Len(es) /\ m <= k
      BY <2>1
    <3> QED
      BY <1>3, <3>1, <3>2
  <2>3. \A m \in 1..k : o[m] \in Rows(w)
    BY <1>2, <2>1
  <2>4. Charge(w, a, Done(o, k)) = Charge(w, a, Done(o, j))
    BY <2>1, <2>2, <2>3, ChargeSame
  <2>5. CASE j = 0
    <3>1. Done(o, j) = {}
      BY <2>5 DEF Done
    <3>2. Charge(w, a, Done(o, j)) = 0
      BY <3>1, SumEmpty DEF Charge
    <3>3. Max0(balance[a] - 0) = balance[a]
      BY <1>1 DEF Max0
    <3> QED
      BY <2>4, <2>5, <3>2, <3>3 DEF Held
  <2>6. CASE j > 0
    <3>1. j \in 1..Len(o) /\ es[j].acct = a /\ j # 0
      BY <1>4, <2>1, <2>6 DEF LastOf
    <3> QED
      BY <1>3, <2>4, <3>1 DEF Held
  <2> QED
    BY <2>1, <2>5, <2>6
<1>5. ASSUME NEW k \in 1..Len(es), NEW j, LastOf(es, es[k].acct, j, k - 1)
      PROVE  es[k].after = Max0(Held(balance, es, es[k].acct, j) + es[k].amount)
  <2> DEFINE a == es[k].acct
             s == sweep[w].seen[o[k]]
             y == Charge(w, a, Done(o, k - 1))
  <2>1. k \in 1..Len(o) /\ k - 1 \in 0..Len(o)
    BY <1>2
  <2>2. a \in Accounts /\ a = ledger[o[k]].acct /\ s \in Nat /\ y \in Nat /\ balance[a] \in Nat
    BY <1>1, <1>2, <1>3, <2>1, ChargeNat
  <2>3. Held(balance, es, a, j) = Max0(balance[a] - y)
    BY <1>4, <1>5, <2>1, <2>2
  <2>4. Charge(w, a, Done(o, k)) = y + s
    BY <2>1, <2>2, ChargeMore
  <2>5. es[k].after = Max0(balance[a] - (y + s)) /\ es[k].amount = -s
    BY <1>3, <2>1, <2>4
  <2> HIDE DEF a, s, y
  <2>6. Max0(Max0(balance[a] - y) + (-s)) = Max0(balance[a] - (y + s))
    BY <2>2, ClampTwice
  <2>7. es[k].after = Max0(Held(balance, es, a, j) + es[k].amount)
    BY <2>3, <2>5, <2>6
  <2> QED
    BY <2>7 DEF a
<1>6. ASSUME NEW a \in Accounts, NEW j, LastOf(es, a, j, Len(es))
      PROVE  c[a] = Held(balance, es, a, j)
  <2>1. Len(es) \in 0..Len(o)
    BY <1>2
  <2> QED
    BY <1>2, <1>4, <1>6, <2>1
<1> QED
  BY <1>5, <1>6 DEF Follows

LEMMA SweepCaches ==
  ASSUME IInv, CachesExact, NEW w \in Sweepers, SweepCommit(w)
  PROVE  CachesExact'
<1>1. TypeOK /\ CursorOK
  BY DEF IInv
<1>s. PICK o, es, rs, kept, A :
        /\ o \in CursorOrders(w)
        /\ es = [k \in 1..Len(o) |-> ExpireEntry(w, o, k)]
        /\ rs = [k \in 1..Len(o) |-> 0]
        /\ kept = [i \in Entries |-> IF i \in Rows(w) THEN 0 ELSE remaining[i]]
        /\ A = AccountsOf(w)
        /\ Write(es, rs, kept, A)
  <2> DEFINE z == [i \in Entries |-> IF i \in Rows(w) THEN 0 ELSE remaining[i]]
  <2>1. PICK o \in CursorOrders(w) :
          Write([k \in 1..Len(o) |-> ExpireEntry(w, o, k)],
                [k \in 1..Len(o) |-> 0], z, AccountsOf(w))
    BY DEF SweepCommit
  <2> QED
    BY <2>1
<1>2. balance' = [a \in Accounts |-> Max0(balance[a] - Charge(w, a, Rows(w)))]
  BY DEF SweepCommit
<1>3. /\ balance \in [Accounts -> Nat] /\ remaining \in [Entries -> Nat]
      /\ Rows(w) \subseteq Entries /\ sweep[w].seen \in [Rows(w) -> Nat]
      /\ ledger \in Seq(Entry)
  BY <1>1 DEF TypeOK
<1>4. Len(o) \in Nat /\ \A k \in 1..Len(o) : o[k] \in Rows(w)
  BY <1>1, <1>s, CursorOrder
<1>5. \A i \in Entries : ledger[i].acct \in Accounts
  <2> SUFFICES ASSUME NEW i \in Entries PROVE ledger[i].acct \in Accounts
    OBVIOUS
  <2>1. ledger[i] \in Entry
    BY <1>3 DEF Entries
  <2> QED
    BY <2>1 DEF Entry
<1>6. ASSUME NEW k \in 1..Len(o) PROVE ExpireEntry(w, o, k) \in Entry
  <2>1. o[k] \in Rows(w) /\ ledger[o[k]].acct \in Accounts /\ sweep[w].seen[o[k]] \in Nat
    BY <1>3, <1>4, <1>5
  <2>2. balance[ledger[o[k]].acct] \in Nat
    BY <2>1, <1>3
  <2>3. Charge(w, ledger[o[k]].acct, {o[m] : m \in 1..k}) \in Nat
    BY <1>1, ChargeNat
  <2>4. Max0(balance[ledger[o[k]].acct]
               - Charge(w, ledger[o[k]].acct, {o[m] : m \in 1..k})) \in Nat
    BY <2>2, <2>3 DEF Max0
  <2> QED
    BY <2>1, <2>4, TimeAssumption DEF ExpireEntry, Entry, Kinds
<1>7. es \in Seq(Entry) /\ Len(es) = Len(o)
  <2>1. es \in [1..Len(o) -> Entry]
    BY <1>s, <1>6
  <2> QED
    BY <2>1, <1>4
<1>8. rs \in [1..Len(es) -> Nat]
  BY <1>s, <1>7
<1>9. kept \in [Entries -> Nat]
  BY <1>s, <1>3
<1>10. A \in SUBSET Accounts
  BY <1>s, <1>3, <1>5 DEF AccountsOf
<1>11. Follows(balance, es, balance')
  <2>1. \A a \in Accounts : balance'[a] = Max0(balance[a] - Charge(w, a, Rows(w)))
    BY <1>2
  <2> QED
    BY <1>1, <1>s, <1>5, <1>7, <2>1, SweepFollows
<1>12. \A k \in 1..Len(es) : es[k].acct \in A
  BY <1>s, <1>4, <1>7 DEF ExpireEntry, AccountsOf
<1>13. \A i \in Entries : ledger[i].acct \notin A => kept[i] = remaining[i]
  BY <1>s DEF AccountsOf
<1> QED
  BY <1>1, <1>s, <1>7, <1>8, <1>9, <1>10, <1>11, <1>12, <1>13, WriteCaches

LEMMA CachesKept ==
  ASSUME CachesExact, UNCHANGED <<ledger, remaining, balance, nextExpiry>>
  PROVE  CachesExact'
<1>1. NextExpiryExact'
  BY DEF CachesExact, NextExpiryExact
<1>2. Runs(ledger, balance)
  BY RunsNow DEF CachesExact
<1>3. Runs(ledger', balance')
  BY <1>2
<1> QED
  BY <1>1, <1>3, RunsNext DEF CachesExact

(* What is read without the lots is never behind them: after any credits,  *)
(* debits, merges and sweeps, balance_after is a running total that ends   *)
(* in the balance, and next_expiry_at is the date of the account's soonest *)
(* open lot (refresh_next_expiry, the reminder jobs).                      *)
THEOREM CachesStayExact == Spec => []CachesExact
<1>1. Init => CachesExact
  <2> SUFFICES ASSUME Init PROVE CachesExact
    OBVIOUS
  <2>1. Entries = {} /\ 1..Len(ledger) = {}
    BY DEF Init, Entries
  <2>2. RunningBalance
    BY <2>1 DEF Init, RunningBalance, AfterOf
  <2>3. NextExpiryExact
    BY <2>1 DEF Init, NextExpiryExact, IsNextExpiry
  <2> QED
    BY <2>2, <2>3 DEF CachesExact
<1>2. IInv /\ CachesExact /\ [Next]_vars => CachesExact'
  <2> SUFFICES ASSUME IInv, CachesExact, [Next]_vars PROVE CachesExact'
    OBVIOUS
  <2>1. ASSUME NEW c \in Callers, NEW r \in Requests, Begin(c, r) PROVE CachesExact'
    BY <2>1, CachesKept DEF Begin
  <2>2. ASSUME NEW c \in Callers, Collide(c) \/ Refuse(c) PROVE CachesExact'
    <3>1. UNCHANGED <<ledger, remaining, balance, nextExpiry>>
      BY <2>2 DEF Collide, Refuse
    <3> QED
      BY <3>1, CachesKept
  <2>3. ASSUME NEW w \in Sweepers, SweepOpen(w) \/ SweepLock(w) \/ SweepAbort(w)
        PROVE  CachesExact'
    <3>1. UNCHANGED <<ledger, remaining, balance, nextExpiry>>
      BY <2>3 DEF SweepOpen, SweepLock, SweepAbort
    <3> QED
      BY <3>1, CachesKept
  <2>4. ASSUME Tick \/ UNCHANGED vars PROVE CachesExact'
    <3>1. UNCHANGED <<ledger, remaining, balance, nextExpiry>>
      BY <2>4 DEF Tick, vars
    <3> QED
      BY <3>1, CachesKept
  <2> QED
    BY <2>1, <2>2, <2>3, <2>4, CreditCaches, DebitCaches, MergeCaches, SweepCaches DEF Next
<1> QED
  BY <1>1, <1>2, Invariance, PTL DEF Spec

-----------------------------------------------------------------------------
(* The order of consumption.                                               *)

(* The FIFO loop reaches a lot only when those that expire before it are   *)
(* empty.                                                                  *)
LEMMA DebitInOrder ==
  ASSUME TypeOK, NEW a \in Accounts, NEW d \in Nat,
         NEW i \in Entries, NEW j \in Entries, ledger[i].acct = ledger[j].acct,
         ledger[i].expires < ledger[j].expires,
         AfterDebit(a, d)[j] < remaining[j]
  PROVE  AfterDebit(a, d)[i] = 0
<1>1. remaining[i] \in Nat /\ remaining[j] \in Nat
  BY DEF TypeOK
<1>2. j \in Lots(a)
  BY <1>1 DEF AfterDebit
<1>3. ledger[j].acct = a
  BY <1>2 DEF Lots
<1>4. CASE i \notin Lots(a)
  <2>1. ledger[i].kind \notin CreditKinds
    BY <1>3, <1>4 DEF Lots
  <2>2. remaining[i] = 0
    BY <1>1, <2>1 DEF TypeOK
  <2> QED
    BY <1>4, <2>2 DEF AfterDebit
<1>5. CASE i \in Lots(a)
  <2> DEFINE Bi == LotsBefore(i)
             Bj == LotsBefore(j)
  <2>1. Take(d, j) \in 0..remaining[j] /\ AfterDebit(a, d)[j] = remaining[j] - Take(d, j)
    BY <1>2, TakeFacts DEF AfterDebit
  <2>2. 1 \in 1..remaining[j] /\ 1 <= Take(d, j)
    BY <1>1, <2>1
  <2>3. Sum(Bj, remaining) + 1 <= d
    BY <1>2, <2>2, TakeFacts
  <2>4. \A k \in Lots(a) : ledger[k].expires \in Nat /\ k \in Nat /\ ledger[k].acct = a
    <3> SUFFICES ASSUME NEW k \in Lots(a)
                 PROVE  ledger[k].expires \in Nat /\ k \in Nat /\ ledger[k].acct = a
      OBVIOUS
    <3>1. k \in 1..Len(ledger) /\ ledger[k].acct = a
      BY DEF Lots, Entries
    <3>2. ledger[k] \in Entry
      BY <3>1 DEF TypeOK
    <3> QED
      BY <3>1, <3>2 DEF Entry
  <2>5. /\ Bi = {k \in Lots(a) : Earlier(k, i)}
        /\ Bj = {k \in Lots(a) : Earlier(k, j)}
    BY <1>3 DEF LotsBefore
  <2>6. i \in Bj \ Bi
    BY <1>5, <2>4, <2>5 DEF Earlier
  <2>7. Bi \subseteq Bj
    <3> SUFFICES ASSUME NEW k \in Bi PROVE k \in Bj
      OBVIOUS
    <3>1. k \in Lots(a) /\ Earlier(k, i)
      BY <2>5
    <3>2. ledger[k].expires <= ledger[i].expires
      BY <1>5, <2>4, <3>1 DEF Earlier
    <3>3. Earlier(k, j)
      BY <1>2, <1>5, <2>4, <3>1, <3>2 DEF Earlier
    <3> QED
      BY <2>5, <3>1, <3>3
  <2>8. IsFiniteSet(Bj) /\ (\A k \in Bj : remaining[k] \in Nat)
    <3>1. Bj \subseteq Lots(a)
      BY <2>5
    <3> QED
      BY <3>1, LotsFacts, FS_Subset
  <2>9. Sum(Bi, remaining) \in Nat /\ Sum(Bj, remaining) \in Nat
    BY <2>7, <2>8, FS_Subset, SumNat
  <2> HIDE DEF Bi, Bj
  <2>10. Sum(Bi, remaining) + remaining[i] <= Sum(Bj, remaining)
    BY <2>6, <2>7, <2>8, SumBefore
  <2>11. Take(d, i) = remaining[i]
    <3>1. /\ Take(d, i) \in 0..remaining[i]
          /\ \A u \in 1..remaining[i] : u <= Take(d, i) <=> Sum(Bi, remaining) + u <= d
      BY <1>5, TakeFacts DEF Bi
    <3>2. CASE remaining[i] = 0
      BY <3>1, <3>2
    <3>3. CASE remaining[i] > 0
      <4>1. remaining[i] \in 1..remaining[i]
        BY <1>1, <3>3
      <4>2. Sum(Bi, remaining) + remaining[i] <= d
        BY <1>1, <2>3, <2>9, <2>10
      <4>3. remaining[i] <= Take(d, i)
        BY <3>1, <4>1, <4>2
      <4> QED
        BY <1>1, <3>1, <4>3
    <3> QED
      BY <1>1, <3>2, <3>3
  <2> QED
    BY <1>1, <1>5, <2>11 DEF AfterDebit
<1> QED
  BY <1>4, <1>5

InOrder ==
  \A i, j \in Entries :
    /\ ledger[i].acct = ledger[j].acct
    /\ ledger[i].expires < ledger[j].expires
    /\ remaining'[j] < remaining[j]
    => remaining'[i] = 0

(* A write of what a debit leaves consumes in order.                       *)
LEMMA WriteInOrder ==
  ASSUME TypeOK, NEW a \in Accounts, NEW d \in Nat,
         \A i \in Entries : remaining'[i] = AfterDebit(a, d)[i]
  PROVE  InOrder
BY DebitInOrder DEF InOrder

(* Only the two debits append an entry whose kind is a debit's.            *)
LEMMA FirstWritten ==
  ASSUME TypeOK, NEW es \in Seq(Entry), NEW rs, NEW kept, NEW A,
         Write(es, rs, kept, A)
  PROVE  Debits => Len(es) > 0 /\ es[1].kind \in DebitKinds
<1>1. ledger \in Seq(Entry) /\ Len(ledger) \in Nat /\ Len(es) \in Nat
  BY DEF TypeOK
<1>2. ledger' = ledger \o es /\ Len(ledger') = Len(ledger) + Len(es)
  BY <1>1 DEF Write
<1>3. Len(es) > 0 => ledger'[Len(ledger) + 1] = es[1]
  BY <1>1, <1>2
<1> QED
  BY <1>1, <1>2, <1>3 DEF Debits

LEMMA CreditNotDebit ==
  ASSUME TypeOK, NEW c \in Callers, NEW life \in Lifetimes \cup {Never}, Credit(c, life)
  PROVE  ~Debits
<1>2. pending[c] # Idle
  BY DEF Credit
<1>r. PICK r, a, n : r = pending[c].req /\ a = Op[r].acct /\ n = Op[r].amount
  OBVIOUS
<1>e. PICK e : e = [acct |-> a, kind |-> "earn", amount |-> n,
                    after |-> balance[a] + n,
                    expires |-> ExpiresAt(pending[c].at, life), key |-> r]
  OBVIOUS
<1>3. r \in Requests /\ a \in Accounts /\ n \in Nat \ {0}
  BY <1>2, <1>r, PendingRequest
<1>4. ExpiresAt(pending[c].at, life) \in Nat
  BY <1>2, PendingRequest, ExpiresAtNat
<1>5. e \in Entry /\ e.kind = "earn"
  BY <1>e, <1>3, <1>4 DEF Entry, Kinds, CreditKinds, TypeOK
<1>6. <<e>> \in Seq(Entry) /\ <<e>>[1] = e
  BY <1>5
<1>7. Write(<<e>>, <<n>>, remaining, {a})
  BY <1>r, <1>e DEF Credit
<1>8. Debits => <<e>>[1].kind \in DebitKinds
  BY <1>6, <1>7, FirstWritten
<1> QED
  BY <1>5, <1>6, <1>8 DEF DebitKinds

LEMMA FirstAppended ==
  ASSUME NEW T, NEW s \in Seq(T), NEW t \in Seq(T)
  PROVE  /\ Len(s \o t) = Len(s) + Len(t)
         /\ Len(t) > 0 => (s \o t)[Len(s) + 1] = t[1]
<1>1. Len(s \o t) = Len(s) + Len(t)
  OBVIOUS
<1>2. ASSUME Len(t) > 0 PROVE (s \o t)[Len(s) + 1] = t[1]
  BY <1>2
<1> QED
  BY <1>1, <1>2

LEMMA SweepNotDebit ==
  ASSUME TypeOK, CursorOK, NEW w \in Sweepers, SweepCommit(w)
  PROVE  ~Debits
<1>1. PICK o \in CursorOrders(w) :
        Write([k \in 1..Len(o) |-> ExpireEntry(w, o, k)], [k \in 1..Len(o) |-> 0],
              [i \in Entries |-> IF i \in Rows(w) THEN 0 ELSE remaining[i]],
              AccountsOf(w))
  BY DEF SweepCommit
<1>2. Len(o) \in Nat
  BY CursorOrder
<1>es. PICK es : es = [k \in 1..Len(o) |-> ExpireEntry(w, o, k)]
  OBVIOUS
<1>3. /\ ledger \in Seq(Entry) /\ Len(ledger) \in Nat
      /\ ledger' = ledger \o es
  BY <1>1, <1>es DEF Write, TypeOK
<1>4. \A k \in 1..Len(o) : es[k].kind = "expire"
  BY <1>es DEF ExpireEntry
<1>5. es \in Seq({es[k] : k \in 1..Len(o)}) /\ Len(es) = Len(o)
  BY <1>2, <1>es
<1>6. /\ Len(ledger') = Len(ledger) + Len(o)
      /\ Len(o) > 0 => ledger'[Len(ledger) + 1] = es[1]
  <2> DEFINE T == Entry \cup {es[k] : k \in 1..Len(o)}
  <2>1. ledger \in Seq(T) /\ es \in Seq(T)
    BY <1>3, <1>5
  <2> HIDE DEF T
  <2>2. /\ Len(ledger \o es) = Len(ledger) + Len(es)
        /\ Len(es) > 0 => (ledger \o es)[Len(ledger) + 1] = es[1]
    BY <2>1, FirstAppended
  <2> QED
    BY <1>3, <1>5, <2>2
<1> QED
  BY <1>2, <1>3, <1>4, <1>6 DEF Debits, DebitKinds

LEMMA DebitConsumes ==
  ASSUME TypeOK, NEW c \in Callers, Debit(c)
  PROVE  InOrder
<1>2. pending[c] # Idle
  BY DEF Debit
<1>r. PICK r, a, d : r = pending[c].req /\ a = Op[r].acct /\ d = Op[r].amount
  OBVIOUS
<1>3. a \in Accounts /\ d \in Nat
  BY <1>2, <1>r, PendingRequest
<1>4. PICK e : Write(<<e>>, <<0>>, AfterDebit(a, d), {a})
  BY <1>r DEF Debit
<1>5. remaining' = Extended(Len(ledger), AfterDebit(a, d), Len(<<e>>), <<0>>)
  BY <1>4 DEF Write, Extended
<1>6. \A i \in Entries : remaining'[i] = AfterDebit(a, d)[i]
  BY <1>5 DEF Extended, Entries, TypeOK
<1> QED
  BY <1>3, <1>6, WriteInOrder

LEMMA MergeConsumes ==
  ASSUME TypeOK, NEW from \in Accounts, NEW to \in Accounts,
         NEW life \in Lifetimes \cup {Never}, Merge(from, to, life)
  PROVE  InOrder
<1>n. PICK n : n = balance[from]
  OBVIOUS
<1>3. n \in Nat
  BY <1>n DEF TypeOK
<1>4. PICK x, y : Write(<<x, y>>, <<0, n>>, AfterDebit(from, n), {from, to})
  BY <1>n DEF Merge
<1>5. remaining' = Extended(Len(ledger), AfterDebit(from, n), Len(<<x, y>>), <<0, n>>)
  BY <1>4 DEF Write, Extended
<1>6. \A i \in Entries : remaining'[i] = AfterDebit(from, n)[i]
  BY <1>5 DEF Extended, Entries, TypeOK
<1> QED
  BY <1>3, <1>6, WriteInOrder

(* A debit or a merge never leaves a unit in a lot that expires before one *)
(* it has taken from: debit_account's "expires_at asc nulls last".         *)
THEOREM SpendsEarliestFirst == Spec => EarliestFirst
<1>1. IInv /\ [Next]_vars => (Debits => InOrder)
  <2> SUFFICES ASSUME IInv, [Next]_vars, Debits PROVE InOrder
    OBVIOUS
  <2>1. TypeOK /\ CursorOK
    BY DEF IInv
  <2>2. ledger' # ledger
    BY <2>1 DEF Debits, TypeOK
  <2>3. \A c \in Callers : ~Collide(c) /\ ~Refuse(c) /\ \A r \in Requests : ~Begin(c, r)
    BY <2>2 DEF Collide, Refuse, Begin
  <2>4. \A w \in Sweepers : ~SweepOpen(w) /\ ~SweepLock(w) /\ ~SweepAbort(w)
    BY <2>2 DEF SweepOpen, SweepLock, SweepAbort
  <2>5. ~Tick /\ ~UNCHANGED vars
    BY <2>2 DEF Tick, vars
  <2>6. \A w \in Sweepers : ~SweepCommit(w)
    BY <2>1, SweepNotDebit
  <2>7. \A c \in Callers : \A life \in Lifetimes \cup {Never} : ~Credit(c, life)
    BY <2>1, CreditNotDebit
  <2> QED
    BY <2>1, <2>3, <2>4, <2>5, <2>6, <2>7, DebitConsumes, MergeConsumes DEF Next
<1>2. (Debits => InOrder) =>
        [Debits =>
           \A i, j \in Entries :
             /\ ledger[i].acct = ledger[j].acct
             /\ ledger[i].expires < ledger[j].expires
             /\ remaining'[j] < remaining[j]
             => remaining'[i] = 0]_vars
  BY DEF InOrder
<1> QED
  BY <1>1, <1>2, Invariance, PTL DEF Spec, EarliestFirst

-----------------------------------------------------------------------------
(* The ledger implements PointsAccount.                                    *)

(* The requests that have taken effect after the entries es are appended.  *)
LEMMA AppliedAfterAppend ==
  ASSUME TypeOK, NEW S, NEW es \in Seq(S), ledger' = ledger \o es
  PROVE  Applied' = Applied \cup {r \in Requests : \E k \in 1..Len(es) : es[k].key = r}
<1>1. ledger \in Seq(Entry \cup S) /\ es \in Seq(Entry \cup S)
  BY DEF TypeOK
<1>2. /\ Len(ledger) \in Nat /\ Len(es) \in Nat
      /\ Len(ledger') = Len(ledger) + Len(es)
      /\ \A i \in 1..Len(ledger) : ledger'[i] = ledger[i]
      /\ \A k \in 1..Len(es) : ledger'[Len(ledger) + k] = es[k]
  BY <1>1
<1>3. \A i \in 1..Len(ledger') : i \in 1..Len(ledger) \/
         \E k \in 1..Len(es) : i = Len(ledger) + k
  <2> SUFFICES ASSUME NEW i \in 1..Len(ledger'), i \notin 1..Len(ledger)
               PROVE  \E k \in 1..Len(es) : i = Len(ledger) + k
    OBVIOUS
  <2>1. i - Len(ledger) \in 1..Len(es) /\ i = Len(ledger) + (i - Len(ledger))
    BY <1>2
  <2> QED
    BY <2>1
<1>4. \A i \in 1..Len(ledger) : i \in 1..Len(ledger')
  BY <1>2
<1>5. \A k \in 1..Len(es) : Len(ledger) + k \in 1..Len(ledger')
  BY <1>2
<1>6. \A r : KeyUsed(r)' <=> KeyUsed(r) \/ \E k \in 1..Len(es) : es[k].key = r
  <2> SUFFICES ASSUME NEW r
               PROVE  KeyUsed(r)' <=> KeyUsed(r) \/ \E k \in 1..Len(es) : es[k].key = r
    OBVIOUS
  <2>1. KeyUsed(r)' <=> \E i \in 1..Len(ledger') : ledger'[i].key = r
    BY DEF KeyUsed, Entries
  <2>2. KeyUsed(r) <=> \E i \in 1..Len(ledger) : ledger[i].key = r
    BY DEF KeyUsed, Entries
  <2>3. ASSUME NEW i \in 1..Len(ledger'), ledger'[i].key = r
        PROVE  \/ \E j \in 1..Len(ledger) : ledger[j].key = r
               \/ \E k \in 1..Len(es) : es[k].key = r
    <3>1. CASE i \in 1..Len(ledger)
      BY <3>1, <2>3, <1>2
    <3>2. CASE \E k \in 1..Len(es) : i = Len(ledger) + k
      BY <3>2, <2>3, <1>2
    <3> QED
      BY <3>1, <3>2, <1>3
  <2>4. ASSUME NEW i \in 1..Len(ledger), ledger[i].key = r
        PROVE  \E j \in 1..Len(ledger') : ledger'[j].key = r
    <3>1. i \in 1..Len(ledger') /\ ledger'[i] = ledger[i]
      BY <1>2, <1>4
    <3> QED
      BY <3>1, <2>4
  <2>5. ASSUME NEW k \in 1..Len(es), es[k].key = r
        PROVE  \E j \in 1..Len(ledger') : ledger'[j].key = r
    <3>1. Len(ledger) + k \in 1..Len(ledger') /\ ledger'[Len(ledger) + k] = es[k]
      BY <1>2, <1>5
    <3> QED
      BY <3>1, <2>5
  <2> QED
    BY <2>1, <2>2, <2>3, <2>4, <2>5
<1> QED
  BY <1>6 DEF Applied

LEMMA CreditApplies ==
  ASSUME TypeOK, NEW c \in Callers, NEW life \in Lifetimes \cup {Never}, Credit(c, life)
  PROVE  Account!Next
<1>1. PICK r, a, n : r = pending[c].req /\ a = Op[r].acct /\ n = Op[r].amount
  OBVIOUS
<1>2. PICK e : e = [acct |-> a, kind |-> "earn", amount |-> n,
                    after |-> balance[a] + n,
                    expires |-> ExpiresAt(pending[c].at, life), key |-> r]
  OBVIOUS
<1>3. /\ Op[r].kind = "credit"
      /\ ~KeyUsed(r)
      /\ ledger' = ledger \o <<e>>
      /\ balance' = [balance EXCEPT ![a] = @ + n]
  BY <1>1, <1>2 DEF Credit, KeyFree, Write
<1>4. r \in Requests
  BY <1>1, PendingRequest DEF Credit
<1>5. Applied' = Applied \cup {r}
  <2>1. <<e>> \in Seq({e}) /\ Len(<<e>>) = 1 /\ <<e>>[1] = e
    OBVIOUS
  <2>2. Applied' = Applied \cup {x \in Requests : \E k \in 1..Len(<<e>>) : <<e>>[k].key = x}
    BY <2>1, <1>3, AppliedAfterAppend
  <2>3. {x \in Requests : \E k \in 1..Len(<<e>>) : <<e>>[k].key = x} = {r}
    BY <2>1, <1>2, <1>4
  <2> QED
    BY <2>2, <2>3
<1>6. r \notin Applied
  BY <1>3 DEF Applied
<1>7. Account!Earn(r)
  BY <1>1, <1>3 DEF Account!Earn
<1>8. Account!Apply(r)
  BY <1>5, <1>6, <1>7 DEF Account!Apply
<1> QED
  BY <1>4, <1>8 DEF Account!Next

LEMMA DebitApplies ==
  ASSUME TypeOK, NEW c \in Callers, Debit(c)
  PROVE  Account!Next
<1>1. PICK r, a, n : r = pending[c].req /\ a = Op[r].acct /\ n = Op[r].amount
  OBVIOUS
<1>2. PICK e : e = [acct |-> a, kind |-> "redeem", amount |-> -n,
                    after |-> balance[a] - n, expires |-> Never, key |-> r]
  OBVIOUS
<1>3. /\ Op[r].kind = "debit"
      /\ ~KeyUsed(r)
      /\ balance[a] >= n
      /\ ledger' = ledger \o <<e>>
      /\ balance' = [balance EXCEPT ![a] = @ - n]
  BY <1>1, <1>2 DEF Debit, KeyFree, Write
<1>4. r \in Requests /\ a \in Accounts /\ n \in Nat
  BY <1>1, PendingRequest DEF Debit
<1>5. Applied' = Applied \cup {r}
  <2>1. <<e>> \in Seq({e}) /\ Len(<<e>>) = 1 /\ <<e>>[1] = e
    OBVIOUS
  <2>2. Applied' = Applied \cup {x \in Requests : \E k \in 1..Len(<<e>>) : <<e>>[k].key = x}
    BY <2>1, <1>3, AppliedAfterAppend
  <2>3. {x \in Requests : \E k \in 1..Len(<<e>>) : <<e>>[k].key = x} = {r}
    BY <2>1, <1>2, <1>4
  <2> QED
    BY <2>2, <2>3
<1>6. r \notin Applied
  BY <1>3 DEF Applied
<1>7. n <= balance[a]
  <2>1. balance[a] \in Nat
    BY <1>4 DEF TypeOK
  <2> QED
    BY <2>1, <1>3, <1>4
<1>8. Account!Spend(r)
  BY <1>1, <1>3, <1>7 DEF Account!Spend
<1>9. Account!Apply(r)
  BY <1>5, <1>6, <1>8 DEF Account!Apply
<1> QED
  BY <1>4, <1>9 DEF Account!Next

LEMMA MergeTransfers ==
  ASSUME TypeOK, NEW from \in Accounts, NEW to \in Accounts,
         NEW life \in Lifetimes \cup {Never}, Merge(from, to, life)
  PROVE  Account!Next
<1>1. PICK n, out, in :
        /\ n = balance[from]
        /\ out = [acct |-> from, kind |-> "transfer_out", amount |-> -n, after |-> 0,
                  expires |-> Never, key |-> None]
        /\ in = [acct |-> to, kind |-> "transfer_in", amount |-> n,
                 after |-> balance[to] + n, expires |-> ExpiresAt(now, life),
                 key |-> None]
  OBVIOUS
<1>2. /\ from # to
      /\ ledger' = ledger \o <<out, in>>
      /\ balance' = [balance EXCEPT ![from] = 0, ![to] = @ + n]
  BY <1>1 DEF Merge, Write
<1>3. Applied' = Applied
  <2>1. /\ <<out, in>> \in Seq({out, in}) /\ Len(<<out, in>>) = 2
        /\ <<out, in>>[1] = out /\ <<out, in>>[2] = in
    OBVIOUS
  <2>2. Applied' = Applied \cup
           {x \in Requests : \E k \in 1..Len(<<out, in>>) : <<out, in>>[k].key = x}
    BY <2>1, <1>2, AppliedAfterAppend
  <2>3. out.key = None /\ in.key = None
    BY <1>1
  <2>4. \A k \in 1..Len(<<out, in>>) : <<out, in>>[k].key = None
    BY <2>1, <2>3
  <2> QED
    BY <2>2, <2>4, RequestsAssumption
<1>4. Account!Transfer(from, to)
  BY <1>1, <1>2, <1>3 DEF Account!Transfer
<1> QED
  BY <1>4 DEF Account!Next

LEMMA SweepLapses ==
  ASSUME IInv, NEW w \in Sweepers, SweepCommit(w)
  PROVE  Account!Next
<1>1. TypeOK /\ CursorOK /\ balance \in [Accounts -> Nat]
  BY DEF IInv, TypeOK
<1>2. balance' = [a \in Accounts |-> Max0(balance[a] - Charge(w, a, Rows(w)))]
  BY DEF SweepCommit
<1>o. PICK o \in CursorOrders(w) :
        ledger' = ledger \o [k \in 1..Len(o) |-> ExpireEntry(w, o, k)]
  BY DEF SweepCommit, Write
<1>3. PICK es : es = [k \in 1..Len(o) |-> ExpireEntry(w, o, k)] /\ ledger' = ledger \o es
  BY <1>o
<1>4. Len(o) \in Nat
  <2>1. Cardinality(Rows(w)) \in Nat
    BY <1>1, CursorRows, FS_CardinalityType
  <2>2. o \in [1..Cardinality(Rows(w)) -> Rows(w)]
    BY <1>o DEF CursorOrders
  <2>3. o \in Seq(Rows(w)) /\ Len(o) = Cardinality(Rows(w))
    BY <2>1, <2>2
  <2> QED
    BY <2>1, <2>3
<1>5. Applied' = Applied
  <2> DEFINE S == {ExpireEntry(w, o, k) : k \in 1..Len(o)}
  <2>1. es \in [1..Len(o) -> S]
    BY <1>3
  <2>2. es \in Seq(S) /\ Len(es) = Len(o)
    <3> HIDE DEF S
    <3> QED
      BY <2>1, <1>4
  <2>3. \A k \in 1..Len(es) : es[k].key = None
    <3>1. \A k \in 1..Len(o) : ExpireEntry(w, o, k).key = None
      BY DEF ExpireEntry
    <3> QED
      BY <3>1, <2>2, <1>3
  <2>4. Applied' = Applied \cup {x \in Requests : \E k \in 1..Len(es) : es[k].key = x}
    <3>1. TypeOK /\ ledger' = ledger \o es
      BY <1>1, <1>3
    <3> HIDE DEF S
    <3> QED
      BY ONLY <3>1, <2>2, AppliedAfterAppend
  <2> QED
    BY <2>3, <2>4, RequestsAssumption
<1>6. ASSUME NEW a \in Accounts
      PROVE  balance'[a] \in Nat /\ balance'[a] <= balance[a]
  <2>1. Charge(w, a, Rows(w)) \in Nat
    BY <1>1, ChargeNat
  <2> QED
    BY <2>1, <1>1, <1>2 DEF Max0
<1>7. balance' \in [Accounts -> Nat]
  <2>1. balance' \in [Accounts -> {balance'[a] : a \in Accounts}]
    BY <1>2
  <2> QED
    BY <2>1, <1>6
<1>8. Account!Lapse
  BY <1>5, <1>6, <1>7 DEF Account!Lapse
<1> QED
  BY <1>8 DEF Account!Next

LEMMA StepApplies == IInv /\ [Next]_vars => [Account!Next]_(Account!vars)
<1> SUFFICES ASSUME IInv, [Next]_vars PROVE Account!Next \/ UNCHANGED <<balance, Applied>>
  BY DEF Account!vars
<1>t. TypeOK
  BY DEF IInv
<1>1. ASSUME UNCHANGED <<ledger, balance>> PROVE UNCHANGED <<balance, Applied>>
  BY <1>1 DEF Applied, KeyUsed, Entries
<1>2. ASSUME NEW c \in Callers, NEW r \in Requests, Begin(c, r)
      PROVE  UNCHANGED <<ledger, balance>>
  BY <1>2 DEF Begin
<1>3. ASSUME NEW c \in Callers, Collide(c) \/ Refuse(c) PROVE UNCHANGED <<ledger, balance>>
  BY <1>3 DEF Collide, Refuse
<1>4. ASSUME NEW w \in Sweepers, SweepOpen(w) \/ SweepLock(w) \/ SweepAbort(w)
      PROVE  UNCHANGED <<ledger, balance>>
  BY <1>4 DEF SweepOpen, SweepLock, SweepAbort
<1>5. Tick \/ UNCHANGED vars => UNCHANGED <<ledger, balance>>
  BY DEF Tick, vars
<1> QED
  BY <1>t, <1>1, <1>2, <1>3, <1>4, <1>5, CreditApplies, DebitApplies, MergeTransfers,
     SweepLapses DEF Next

(* The ledger implements PointsAccount: whatever the interleaving of       *)
(* callers, merges and sweeps, each request takes effect in one step, at   *)
(* most once and only when it can be paid, and every other step only moves *)
(* or removes points.                                                      *)
THEOREM ImplementsPointsAccount == Spec => AppliesRequestsOnce
<1>1. Init => Account!Init
  BY DEF Init, Account!Init, Applied, KeyUsed, Entries
<1>2. IInv /\ [Next]_vars => [Account!Next]_(Account!vars)
  BY StepApplies
<1> QED
  BY <1>1, <1>2, Invariance, PTL DEF Spec, AppliesRequestsOnce, Account!Spec
=============================================================================
