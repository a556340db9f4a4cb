--------------------------- MODULE CommerceProofs ---------------------------
(***************************************************************************)
(* The theorems about GiftCards, about Memberships and about the billing   *)
(* webhook, which share nothing but their proofs' module.  The money on    *)
(* gift cards, for any number of cards, sales, redemptions and tills and   *)
(* any amounts: first for the three functions of the database on their own *)
(* (CardSpec), then for the jobs of GiftCards, which move money in no      *)
(* other way, and what the jobs themselves promise.  Memberships for any   *)
(* number of members, sweeps and staff, any plan and any bounds: every     *)
(* step keeps PlanInv, from which the properties follow.  BillingWebhook   *)
(* for any number of events and requests and anything the events may say:  *)
(* every step keeps BillingInv.                                            *)
(***************************************************************************)
EXTENDS GiftCards, Memberships, BillingWebhook, UnitSumsProofs, JobLeaseProofs

\* What a card's redemptions, its void and its remainder come to.
Accounted(c) == remaining[c] + Sum(TapsOf(c), spent) + voided[c] = Issued(c)

CardShape ==
  /\ CardTypeOK
  /\ till \in [Tills -> [key : Taps, card : Cards] \cup {Closed}]
  /\ \A k \in Taps : spent[k] = 0 => spentOn[k] = "none"
  /\ \A c \in Cards : status[c] # "void" => voided[c] = 0

CardInv ==
  /\ CardShape
  /\ \A c \in Cards : Accounted(c) /\ (status[c] = "active" <=> remaining[c] > 0)

LEMMA TapSums ==
  ASSUME CardShape, NEW c \in Cards
  PROVE  IsFiniteSet(TapsOf(c)) /\ Sum(TapsOf(c), spent) \in Nat
<1>1. TapsOf(c) \subseteq Taps
  BY DEF TapsOf
<1>2. IsFiniteSet(TapsOf(c))
  BY <1>1, CardAssumption, FS_Subset
<1>3. \A k \in TapsOf(c) : spent[k] \in Nat
  BY <1>1 DEF CardShape, CardTypeOK
<1> QED
  BY <1>2, <1>3, SumNat

\* A redemption takes something, and no more than there is.
LEMMA SpendBounds ==
  ASSUME CardShape, NEW k \in Taps, NEW c \in Cards, remaining[c] > 0
  PROVE  Spend(k, c) \in 1..remaining[c]
BY CardAssumption DEF CardShape, CardTypeOK, Spend

----------------------------------------------------------------------------

LEMMA CardInitially == CardInit => CardInv
<1> SUFFICES ASSUME CardInit PROVE CardInv
  OBVIOUS
<1>1. CardShape
  BY DEF CardInit, CardShape, CardTypeOK, Closed
<1>2. ASSUME NEW c \in Cards PROVE Accounted(c) /\ (status[c] = "active" <=> remaining[c] > 0)
  <2>1. TapsOf(c) = {}
    BY CardAssumption DEF TapsOf, CardInit
  <2>2. Sum(TapsOf(c), spent) = 0
    BY <2>1, SumEmpty
  <2> QED
    BY <2>2 DEF Accounted, Issued, CardInit
<1> QED
  BY <1>1, <1>2 DEF CardInv

LEMMA IssueKeeps ==
  ASSUME CardInv, NEW s \in Sales, NEW c \in Cards, Issue(s, c)
  PROVE  CardInv'
<1> USE DEF CardInv
<1>1. /\ status[c] = "absent" /\ status' = [status EXCEPT ![c] = "active"]
      /\ remaining' = [remaining EXCEPT ![c] = Value] /\ sale' = [sale EXCEPT ![c] = s]
      /\ UNCHANGED <<spent, spentOn, voided, expired, till>>
  BY DEF Issue
<1>2. CardShape'
  BY <1>1, CardAssumption DEF CardShape, CardTypeOK
<1>3. ASSUME NEW d \in Cards
      PROVE  Accounted(d)' /\ (status'[d] = "active" <=> remaining'[d] > 0)
  <2>1. TapsOf(d)' = TapsOf(d) /\ Sum(TapsOf(d), spent)' = Sum(TapsOf(d), spent)
    BY <1>1 DEF TapsOf
  <2>2. CASE d # c
    BY <1>1, <2>1, <2>2 DEF Accounted, Issued, CardShape, CardTypeOK
  <2>3. CASE d = c
    <3>1. Sum(TapsOf(c), spent) \in Nat /\ remaining[c] \in Nat /\ voided[c] \in Nat
      BY TapSums DEF CardShape, CardTypeOK
    <3>2. Sum(TapsOf(c), spent) = 0 /\ voided[c] = 0
      BY <1>1, <3>1 DEF Accounted, Issued
    <3>3. remaining'[c] = Value /\ status'[c] = "active" /\ voided'[c] = 0
      BY <1>1, <3>2 DEF CardShape, CardTypeOK
    <3> QED
      BY <2>1, <2>3, <3>2, <3>3, CardAssumption DEF Accounted, Issued
  <2> QED
    BY <2>2, <2>3
<1> QED
  BY <1>2, <1>3

LEMMA RedeemKeeps ==
  ASSUME CardInv, NEW t \in Tills, Redeem(t)
  PROVE  CardInv'
<1> USE DEF CardInv
<1> DEFINE k == till[t].key
           c == till[t].card
           took == Spend(k, c)
<1>1. k \in Taps /\ c \in Cards
  BY DEF Redeem, CardShape
<1>2. /\ status[c] = "active" /\ remaining[c] > 0 /\ spent[k] = 0
      /\ remaining' = [remaining EXCEPT ![c] = remaining[c] - took]
      /\ status' = [status EXCEPT ![c] = IF remaining[c] - took <= 0 THEN "depleted" ELSE status[c]]
      /\ spent' = [spent EXCEPT ![k] = took] /\ spentOn' = [spentOn EXCEPT ![k] = c]
      /\ till' = [till EXCEPT ![t] = Closed]
      /\ UNCHANGED <<sale, voided, expired>>
  BY DEF Redeem, Redeemable
<1>3. remaining[c] \in Nat /\ took \in 1..remaining[c]
  BY <1>1, <1>2, SpendBounds DEF CardShape, CardTypeOK
<1> HIDE DEF k, c, took
<1>4. CardShape'
  <2>1. /\ status' \in [Cards -> {"absent", "active", "depleted", "void"}]
        /\ remaining' \in [Cards -> Nat]
        /\ \A d \in Cards : status'[d] # "void" => status[d] # "void"
    BY <1>1, <1>2, <1>3 DEF CardShape, CardTypeOK
  <2>2. spent' \in [Taps -> Nat] /\ spentOn' \in [Taps -> Cards \cup {"none"}]
    BY <1>1, <1>2, <1>3 DEF CardShape, CardTypeOK
  <2>3. \A j \in Taps : spent'[j] = 0 => spentOn'[j] = "none"
    BY <1>1, <1>2, <1>3 DEF CardShape, CardTypeOK
  <2>4. till' \in [Tills -> [key : Taps, card : Cards] \cup {Closed}]
    BY <1>2 DEF CardShape
  <2>5. till' \in [Tills -> [key : Taps \cup {"none"}, card : Cards \cup {"none"}]]
    BY <2>4 DEF Closed
  <2> QED
    BY <1>2, <2>1, <2>2, <2>3, <2>4, <2>5 DEF CardShape, CardTypeOK
<1>5. ASSUME NEW d \in Cards
      PROVE  Accounted(d)' /\ (status'[d] = "active" <=> remaining'[d] > 0)
  <2>1. k \notin TapsOf(d)
    BY <1>1, <1>2, CardAssumption DEF CardShape, TapsOf
  <2>2. IsFiniteSet(TapsOf(d)) /\ Sum(TapsOf(d), spent) \in Nat
    BY TapSums
  <2>3. Sum(TapsOf(d), spent') = Sum(TapsOf(d), spent)
    <3>1. \A j \in TapsOf(d) : spent'[j] = spent[j]
      BY <1>2, <2>1 DEF CardShape, CardTypeOK, TapsOf
    <3> QED
      BY <3>1, SumExtensional
  <2>4. CASE d # c
    <3>1. TapsOf(d)' = TapsOf(d)
      BY <1>1, <1>2, <2>1, <2>4 DEF TapsOf, CardShape, CardTypeOK
    <3> QED
      BY <1>1, <1>2, <2>3, <2>4, <3>1 DEF Accounted, Issued, CardShape, CardTypeOK
  <2>5. CASE d = c
    <3>1. TapsOf(d)' = TapsOf(d) \cup {k}
      BY <1>1, <1>2, <2>5 DEF TapsOf, CardShape, CardTypeOK
    <3>2. spent'[k] = took /\ \A j \in TapsOf(d) \cup {k} : spent'[j] \in Nat
      BY <1>1, <1>2, <1>3 DEF CardShape, CardTypeOK, TapsOf
    <3> DEFINE S == TapsOf(d)
               f == spent'
    <3>3. Sum({k}, spent') = took
      BY <3>2, SumSingleton
    <3>4. IsFiniteSet({k}) /\ TapsOf(d) \cap {k} = {}
      BY <2>1, FS_Singleton
    <3>5. Sum(S \cup {k}, f) = Sum(S, f) + Sum({k}, f)
      <4>1. IsFiniteSet(S) /\ \A j \in S \cup {k} : f[j] \in Nat
        BY <2>2, <3>2
      <4> HIDE DEF S, f
      <4> QED
        BY <3>4, <4>1, SumDisjoint DEF S
    <3>6. Sum(TapsOf(d), spent)' = Sum(TapsOf(d), spent) + took
      BY <2>3, <3>1, <3>3, <3>5
    <3>7. /\ remaining'[c] = remaining[c] - took /\ voided'[c] = voided[c]
          /\ status'[c] = IF remaining[c] - took <= 0 THEN "depleted" ELSE status[c]
          /\ voided[c] \in Nat
      BY <1>1, <1>2 DEF CardShape, CardTypeOK
    <3>8. remaining[c] + Sum(TapsOf(c), spent) + voided[c] = Value
      BY <1>1, <1>2 DEF Accounted, Issued
    <3> QED
      BY <1>2, <1>3, <2>2, <2>5, <3>6, <3>7, <3>8 DEF Accounted, Issued
  <2> QED
    BY <2>4, <2>5
<1> QED
  BY <1>4, <1>5

LEMMA VoidKeeps ==
  ASSUME CardInv, NEW c \in Cards, Void(c)
  PROVE  CardInv'
<1> USE DEF CardInv
<1>1. /\ status[c] # "absent" /\ status[c] # "void"
      /\ status' = [status EXCEPT ![c] = "void"] /\ remaining' = [remaining EXCEPT ![c] = 0]
      /\ voided' = [voided EXCEPT ![c] = remaining[c]]
      /\ UNCHANGED <<sale, spent, spentOn, expired, till>>
  BY DEF Void
<1>2. CardShape'
  BY <1>1 DEF CardShape, CardTypeOK
<1>3. ASSUME NEW d \in Cards
      PROVE  Accounted(d)' /\ (status'[d] = "active" <=> remaining'[d] > 0)
  <2>1. TapsOf(d)' = TapsOf(d) /\ Sum(TapsOf(d), spent)' = Sum(TapsOf(d), spent)
    BY <1>1 DEF TapsOf
  <2>2. CASE d # c
    BY <1>1, <2>1, <2>2 DEF Accounted, Issued, CardShape, CardTypeOK
  <2>3. CASE d = c
    <3>1. Sum(TapsOf(c), spent) \in Nat /\ remaining[c] \in Nat /\ voided[c] = 0
      BY <1>1, TapSums DEF CardShape, CardTypeOK
    <3>2. remaining[c] + Sum(TapsOf(c), spent) + 0 = Value
      BY <1>1, <3>1 DEF Accounted, Issued
    <3>3. remaining'[c] = 0 /\ status'[c] = "void" /\ voided'[c] = remaining[c]
      BY <1>1 DEF CardShape, CardTypeOK
    <3> QED
      BY <2>1, <2>3, <3>1, <3>2, <3>3 DEF Accounted, Issued
  <2> QED
    BY <2>2, <2>3
<1> QED
  BY <1>2, <1>3

\* A lookup, a refusal and the passing of time leave the books alone.
LEMMA QuietKeeps ==
  ASSUME CardInv, UNCHANGED <<status, remaining, sale, spent, spentOn, voided>>,
         expired' \subseteq Cards,
         till' \in [Tills -> [key : Taps, card : Cards] \cup {Closed}]
  PROVE  CardInv'
<1>1. till' \in [Tills -> [key : Taps \cup {"none"}, card : Cards \cup {"none"}]]
  BY DEF Closed
<1>2. CardShape'
  BY <1>1 DEF CardInv, CardShape, CardTypeOK
<1>3. \A c \in Cards : TapsOf(c)' = TapsOf(c) /\ Accounted(c)' = Accounted(c)
  BY DEF TapsOf, Accounted, Issued
<1> QED
  BY <1>2, <1>3 DEF CardInv

LEMMA CardStepKeeps == CardInv /\ [CardNext]_cardVars => CardInv'
<1> SUFFICES ASSUME CardInv, [CardNext]_cardVars PROVE CardInv'
  OBVIOUS
<1>1. till \in [Tills -> [key : Taps, card : Cards] \cup {Closed}] /\ expired \subseteq Cards
  BY DEF CardInv, CardShape, CardTypeOK
<1>2. CASE UNCHANGED cardVars
  BY <1>1, <1>2, QuietKeeps DEF cardVars
<1>3. ASSUME NEW t \in Tills, NEW k \in Taps, NEW c \in Cards, Lookup(t, k, c) PROVE CardInv'
  BY <1>1, <1>3, QuietKeeps DEF Lookup
<1>4. ASSUME NEW t \in Tills, Refuse(t) PROVE CardInv'
  BY <1>1, <1>4, QuietKeeps DEF Refuse
<1>5. ASSUME NEW c \in Cards, PassExpiry(c) PROVE CardInv'
  BY <1>1, <1>5, QuietKeeps DEF PassExpiry
<1> QED
  BY <1>2, <1>3, <1>4, <1>5, IssueKeeps, RedeemKeeps, VoidKeeps DEF CardNext

----------------------------------------------------------------------------
(* The theorems.                                                           *)

\* redeem_gift_card, void_gift_card and issue_gift_card keep the books, however they
\* overlap and whatever is asked for.
THEOREM FunctionsAddUp == CardSpec => []CardsAddUp
<1>1. CardInv => CardsAddUp
  BY DEF CardInv, CardShape, CardsAddUp, Accounted
<1>2. CardSpec => []CardInv
  BY CardInitially, CardStepKeeps, PTL DEF CardSpec
<1> QED
  BY <1>1, <1>2, PTL

\* A worker that looks up or issues has the job of a sale.
Tasks == [at : {"off", "lookup", "issue", "enqueue", "read", "send", "stamp", "done"},
          job : Jobs \cup {"none"}, card : Cards \cup {"none"}]
Fulfilling ==
  /\ task \in [Workers \cup {Sweep} -> Tasks]
  /\ \A w \in Workers : task[w].at \in {"lookup", "issue"} => task[w].job \in Sales

LEMMA FulfillingInitially == Init => Fulfilling
<1>1. Off \in Tasks /\ Off.at = "off"
  BY DEF Off, Tasks
<1> QED
  BY <1>1 DEF Init, Fulfilling

\* One worker's task changes, to another one of the right kind.
LEMMA TaskChanges ==
  ASSUME Fulfilling, NEW u \in Workers \cup {Sweep}, NEW q \in Tasks,
         u \in Workers /\ q.at \in {"lookup", "issue"} => q.job \in Sales,
         task' = [task EXCEPT ![u] = q]
  PROVE  Fulfilling'
BY DEF Fulfilling

\* It moves to a place where the job does not matter, or stays with its job.
LEMMA TaskMoves ==
  ASSUME Fulfilling, NEW u \in Workers \cup {Sweep},
         NEW p \in {"issue", "enqueue", "send", "stamp", "done"}, NEW c \in Cards \cup {"none"},
         p = "issue" => u \in Workers /\ task[u].at = "lookup",
         \/ task' = [task EXCEPT ![u].at = p]
         \/ task' = [task EXCEPT ![u].at = p, ![u].card = c]
  PROVE  Fulfilling'
<1>1. task[u] \in Tasks
  BY DEF Fulfilling
<1>2. /\ [task[u] EXCEPT !.at = p] \in Tasks
      /\ [task[u] EXCEPT !.at = p].at = p /\ [task[u] EXCEPT !.at = p].job = task[u].job
  BY <1>1 DEF Tasks
<1>3. /\ [task[u] EXCEPT !.at = p, !.card = c] \in Tasks
      /\ [task[u] EXCEPT !.at = p, !.card = c].at = p
      /\ [task[u] EXCEPT !.at = p, !.card = c].job = task[u].job
  BY <1>1 DEF Tasks
<1>4. p = "issue" => task[u].job \in Sales
  BY DEF Fulfilling
<1>5. CASE task' = [task EXCEPT ![u].at = p]
  <2>1. task' = [task EXCEPT ![u] = [task[u] EXCEPT !.at = p]]
    BY <1>5 DEF Fulfilling
  <2> QED
    BY <1>2, <1>4, <2>1, TaskChanges
<1>6. CASE task' = [task EXCEPT ![u].at = p, ![u].card = c]
  <2>1. task' = [task EXCEPT ![u] = [task[u] EXCEPT !.at = p, !.card = c]]
    BY <1>6 DEF Fulfilling
  <2> QED
    BY <1>3, <1>4, <2>1, TaskChanges
<1> QED
  BY <1>5, <1>6

LEMMA FulfillingKeeps == Fulfilling /\ [Next]_vars => Fulfilling'
<1> SUFFICES ASSUME Fulfilling, [Next]_vars PROVE Fulfilling'
  OBVIOUS
<1> USE DEF In, Go
<1>1. Off \in Tasks /\ Off.at = "off"
  BY DEF Off, Tasks
<1>2. ASSUME NEW u \in Workers \cup {Sweep}, task' = [task EXCEPT ![u] = Off] PROVE Fulfilling'
  BY <1>1, <1>2, TaskChanges
<1>3. ASSUME NEW w \in Workers, NEW j \in Jobs, Start(w, j) PROVE Fulfilling'
  <2> DEFINE q == IF j \in Sales THEN [at |-> "lookup", job |-> j, card |-> "none"]
                  ELSE [at |-> "read", job |-> j, card |-> j]
  <2>1. q \in Tasks /\ (q.at \in {"lookup", "issue"} => q.job \in Sales)
    BY JobsAssumption DEF Tasks
  <2> QED
    BY <1>3, <2>1, TaskChanges DEF Start
<1>4. ASSUME NEW w \in Workers, FulfilLookup(w) PROVE Fulfilling'
  <2>1. task[w].at = "lookup"
    BY <1>4 DEF FulfilLookup
  <2>2. CASE task' = [task EXCEPT ![w].at = "done"]
    BY <2>2, TaskMoves
  <2>3. CASE task' = [task EXCEPT ![w].at = "issue"]
    BY <2>1, <2>3, TaskMoves
  <2> QED
    BY <1>4, <2>2, <2>3 DEF FulfilLookup
<1>5. ASSUME NEW w \in Workers, FulfilIssue(w) PROVE Fulfilling'
  <2>1. PICK c \in Cards : task' = [task EXCEPT ![w].at = "enqueue", ![w].card = c]
    BY <1>5 DEF FulfilIssue
  <2> QED
    BY <2>1, TaskMoves
<1>6. ASSUME NEW w \in Workers, FulfilCollide(w) PROVE Fulfilling'
  BY <1>2, <1>6 DEF FulfilCollide
<1>7. ASSUME NEW w \in Workers, FulfilEnqueue(w) PROVE Fulfilling'
  <2>1. task' = [task EXCEPT ![w].at = "done"]
    BY <1>7 DEF FulfilEnqueue
  <2> QED
    BY <2>1, TaskMoves
<1>8. ASSUME NEW u \in Workers \cup {Sweep}, Deliver(u) PROVE Fulfilling'
  <2>1. \/ task' = [task EXCEPT ![u].at = "send"] \/ task' = [task EXCEPT ![u].at = "stamp"]
        \/ task' = [task EXCEPT ![u].at = "done"] \/ task' = [task EXCEPT ![u] = Off]
    BY <1>8 DEF Deliver, DeliverRead, DeliverSend, DeliverFail, DeliverStamp
  <2>2. CASE task' = [task EXCEPT ![u].at = "send"]
    BY <2>2, TaskMoves
  <2>3. CASE task' = [task EXCEPT ![u].at = "stamp"]
    BY <2>3, TaskMoves
  <2>4. CASE task' = [task EXCEPT ![u].at = "done"]
    BY <2>4, TaskMoves
  <2> QED
    BY <1>2, <2>1, <2>2, <2>3, <2>4
<1>9. ASSUME NEW u \in Workers \cup {Sweep}, End(u) \/ Abort(u) PROVE Fulfilling'
  BY <1>2, <1>9 DEF End, Abort
<1>10. ASSUME NEW c \in Cards, SweepStart(c) PROVE Fulfilling'
  <2>1. [at |-> "read", job |-> "none", card |-> c] \in Tasks
    BY DEF Tasks
  <2> QED
    BY <1>10, <2>1, TaskChanges DEF SweepStart
<1>11. CASE UNCHANGED task
  BY <1>11 DEF Fulfilling
<1>12. DOMAIN task = Workers \cup {Sweep}
  BY DEF Fulfilling
<1> QED
  BY <1>3, <1>4, <1>5, <1>6, <1>7, <1>8, <1>9, <1>10, <1>11, <1>12
     DEF Next, Fulfil, Pay, Webhook, Overdue, vars

\* Fulfilment, delivery, the sweep and their failures move money only by the three
\* functions: seen from the cards, every step is one of theirs or none.
LEMMA JobsStep ==
  ASSUME Fulfilling, [Next]_vars
  PROVE  [CardNext]_cardVars
<1>1. ASSUME NEW w \in Workers, FulfilIssue(w) PROVE CardNext
  BY <1>1 DEF FulfilIssue, In, Fulfilling, CardNext
<1>2. CASE Counter
  BY <1>2 DEF Counter, CardNext
<1>3. CASE UNCHANGED cardVars
  BY <1>3
<1>4. ASSUME NEW w \in Workers, FulfilLookup(w) \/ FulfilCollide(w) \/ FulfilEnqueue(w)
      PROVE  UNCHANGED cardVars
  BY <1>4 DEF FulfilLookup, FulfilCollide, FulfilEnqueue
<1>5. ASSUME NEW w \in DOMAIN task, Deliver(w) \/ End(w) \/ Abort(w) PROVE UNCHANGED cardVars
  BY <1>5 DEF Deliver, DeliverRead, DeliverSend, DeliverFail, DeliverStamp, End, Abort
<1> QED
  BY <1>1, <1>2, <1>3, <1>4, <1>5
     DEF Next, Fulfil, Pay, Webhook, Start, SweepStart, Overdue, vars

THEOREM JobsUseTheFunctions == Spec => CardSpec
<1>1. Init => CardInit
  BY DEF Init
<1>2. Spec => []Fulfilling
  BY FulfillingInitially, FulfillingKeeps, PTL DEF Spec
<1> QED
  BY <1>1, <1>2, JobsStep, PTL DEF Spec, CardSpec

\* So the cards add up for the whole of it.
THEOREM CardsStayBalanced == Spec => []CardsAddUp
BY JobsUseTheFunctions, FunctionsAddUp, PTL

----------------------------------------------------------------------------
(* The money on all cards.                                                 *)

\* What was paid in is on the cards, spent or voided.
BooksBalance ==
  Sum(Taps, spent) + Sum(Cards, remaining) + Sum(Cards, voided)
    = Value * Cardinality({c \in Cards : status[c] # "absent"})

LEMMA BookSums ==
  ASSUME CardInv
  PROVE  /\ \A k \in Taps : spent[k] \in Nat
         /\ \A c \in Cards : remaining[c] \in Nat /\ voided[c] \in Nat
         /\ Sum(Taps, spent) \in Nat /\ Sum(Cards, remaining) \in Nat /\ Sum(Cards, voided) \in Nat
         /\ IsFiniteSet({c \in Cards : status[c] # "absent"})
         /\ Cardinality({c \in Cards : status[c] # "absent"}) \in Nat
<1>1. /\ \A k \in Taps : spent[k] \in Nat
      /\ \A c \in Cards : remaining[c] \in Nat /\ voided[c] \in Nat
  BY DEF CardInv, CardShape, CardTypeOK
<1>2. IsFiniteSet({c \in Cards : status[c] # "absent"})
  BY CardAssumption, FS_Subset
<1> QED
  BY <1>1, <1>2, CardAssumption, SumNat, FS_CardinalityType

LEMMA BooksInitially == CardInit => BooksBalance
<1> SUFFICES ASSUME CardInit PROVE BooksBalance
  OBVIOUS
<1>1. Sum(Taps, spent) = 0 /\ Sum(Cards, remaining) = 0 /\ Sum(Cards, voided) = 0
  BY SumZero DEF CardInit
<1>2. {c \in Cards : status[c] # "absent"} = {}
  BY DEF CardInit
<1>3. Cardinality({c \in Cards : status[c] # "absent"}) = 0
  BY <1>2, FS_EmptySet
<1> QED
  BY <1>1, <1>3, CardAssumption DEF BooksBalance

LEMMA OneMore ==
  ASSUME NEW x \in Nat, NEW n \in Nat
  PROVE  x * (n + 1) = x * n + x /\ x * n \in Nat
OBVIOUS

LEMMA BooksKeep ==
  ASSUME CardInv, CardInv', BooksBalance, [CardNext]_cardVars
  PROVE  BooksBalance'
<1> DEFINE n == Cardinality({c \in Cards : status[c] # "absent"})
           a == Sum(Taps, spent)
           b == Sum(Cards, remaining)
           v == Sum(Cards, voided)
<1>1. /\ \A k \in Taps : spent[k] \in Nat /\ spent'[k] \in Nat
      /\ \A c \in Cards : /\ remaining[c] \in Nat /\ voided[c] \in Nat
                          /\ remaining'[c] \in Nat /\ voided'[c] \in Nat
      /\ a \in Nat /\ b \in Nat /\ v \in Nat /\ n \in Nat
      /\ a' \in Nat /\ b' \in Nat /\ v' \in Nat
  <2>1. /\ \A k \in Taps : spent'[k] \in Nat
        /\ \A c \in Cards : remaining'[c] \in Nat /\ voided'[c] \in Nat
    BY DEF CardInv, CardShape, CardTypeOK
  <2>2. Sum(Taps, spent') \in Nat /\ Sum(Cards, remaining') \in Nat /\ Sum(Cards, voided') \in Nat
    BY <2>1, CardAssumption, SumNat
  <2> QED
    BY <2>1, <2>2, BookSums
<1>2. a + b + v = Value * n
  BY DEF BooksBalance
<1>3. IsFiniteSet(Cards) /\ IsFiniteSet(Taps) /\ Value \in Nat
  BY CardAssumption
<1>4. /\ spent \in [Taps -> Nat] /\ remaining \in [Cards -> Nat] /\ voided \in [Cards -> Nat]
      /\ status \in [Cards -> {"absent", "active", "depleted", "void"}]
  BY DEF CardInv, CardShape, CardTypeOK
<1>5. ASSUME UNCHANGED <<spent, remaining, voided, status>> PROVE BooksBalance'
  BY <1>5 DEF BooksBalance
<1>6. ASSUME NEW s \in Sales, NEW c \in Cards, Issue(s, c) PROVE BooksBalance'
  <2>1. remaining' = [remaining EXCEPT ![c] = Value] /\ UNCHANGED <<spent, voided>>
        /\ status[c] = "absent" /\ status' = [status EXCEPT ![c] = "active"]
    BY <1>6 DEF Issue
  <2>2. remaining[c] = 0
    <3>1. Sum(TapsOf(c), spent) \in Nat
      BY TapSums DEF CardInv
    <3> QED
      BY <1>1, <2>1, <3>1 DEF CardInv, Accounted, Issued
  <2>3. b' = b + Value
    <3>1. \A d \in Cards \ {c} : remaining'[d] = remaining[d]
      BY <1>4, <2>1
    <3>2. Sum(Cards, remaining') + remaining[c] = Sum(Cards, remaining) + remaining'[c]
      BY <1>1, <1>3, <3>1, SumUpdate
    <3> QED
      BY <1>1, <1>4, <2>1, <2>2, <3>2
  <2>4. n' = n + 1
    <3>1. {d \in Cards : status'[d] # "absent"} = {d \in Cards : status[d] # "absent"} \cup {c}
      BY <1>4, <2>1
    <3>2. c \notin {d \in Cards : status[d] # "absent"}
      BY <2>1
    <3> QED
      BY <3>1, <3>2, BookSums, FS_AddElement
  <2>5. a' = a /\ v' = v
    BY <2>1
  <2>6. a' + b' + v' = Value * n'
    <3> HIDE DEF a, b, v, n
    <3>1. Value * n' = Value * n + Value /\ Value * n \in Nat
      BY <1>1, <1>3, <2>4, OneMore
    <3>2. a' + b' + v' = a + b + v + Value
      BY <1>1, <1>3, <2>3, <2>5
    <3> QED
      BY <1>2, <3>1, <3>2
  <2> QED
    BY <2>6 DEF BooksBalance
<1>7. ASSUME NEW t \in Tills, Redeem(t) PROVE BooksBalance'
  <2> DEFINE k == till[t].key
             c == till[t].card
             took == Spend(k, c)
  <2>1. k \in Taps /\ c \in Cards
    BY <1>7 DEF Redeem, CardInv, CardShape
  <2>2. /\ remaining[c] > 0 /\ spent[k] = 0 /\ status[c] = "active"
        /\ remaining' = [remaining EXCEPT ![c] = remaining[c] - took]
        /\ status' = [status EXCEPT ![c] = IF remaining[c] - took <= 0 THEN "depleted" ELSE status[c]]
        /\ spent' = [spent EXCEPT ![k] = took]
        /\ UNCHANGED voided
    BY <1>7 DEF Redeem, Redeemable
  <2>3. took \in 1..remaining[c]
    BY <2>1, <2>2, SpendBounds DEF CardInv
  <2> HIDE DEF k, c, took
  <2>4. Sum(Taps, spent') + spent[k] = Sum(Taps, spent) + spent'[k]
    <3>1. \A j \in Taps \ {k} : spent'[j] = spent[j]
      BY <1>4, <2>2
    <3>2. \A j \in Taps : spent[j] \in Nat /\ spent'[j] \in Nat
      BY <1>1
    <3> QED
      BY <1>3, <2>1, <3>1, <3>2, SumUpdate
  <2>5. Sum(Cards, remaining') + remaining[c] = Sum(Cards, remaining) + remaining'[c]
    <3>1. \A d \in Cards \ {c} : remaining'[d] = remaining[d]
      BY <1>4, <2>2
    <3>2. \A d \in Cards : remaining[d] \in Nat /\ remaining'[d] \in Nat
      BY <1>1
    <3> QED
      BY <1>3, <2>1, <3>1, <3>2, SumUpdate
  <2>6. spent'[k] = took /\ remaining'[c] = remaining[c] - took
    BY <1>4, <2>1, <2>2
  <2>7. v' = v /\ {d \in Cards : status'[d] # "absent"} = {d \in Cards : status[d] # "absent"}
    BY <1>4, <2>1, <2>2
  <2>8. a' + b' + v' = a + b + v /\ n' = n
    <3>1. a' = Sum(Taps, spent') /\ b' = Sum(Cards, remaining')
      OBVIOUS
    <3>2. remaining[c] \in Nat /\ spent[k] = 0 /\ n' = n
      BY <1>1, <2>1, <2>2, <2>7
    <3> QED
      BY <1>1, <2>3, <2>4, <2>5, <2>6, <2>7, <3>1, <3>2
  <2> QED
    BY <1>2, <2>8 DEF BooksBalance
<1>8. ASSUME NEW c \in Cards, Void(c) PROVE BooksBalance'
  <2>1. /\ status[c] # "absent" /\ status' = [status EXCEPT ![c] = "void"] /\ UNCHANGED spent
        /\ remaining' = [remaining EXCEPT ![c] = 0] /\ voided' = [voided EXCEPT ![c] = remaining[c]]
        /\ voided[c] = 0
    BY <1>8 DEF Void, CardInv, CardShape
  <2>2. Sum(Cards, remaining') + remaining[c] = Sum(Cards, remaining) + remaining'[c]
    <3>1. \A d \in Cards \ {c} : remaining'[d] = remaining[d]
      BY <1>4, <2>1
    <3> QED
      BY <1>1, <1>3, <3>1, SumUpdate
  <2>3. Sum(Cards, voided') + voided[c] = Sum(Cards, voided) + voided'[c]
    <3>1. \A d \in Cards \ {c} : voided'[d] = voided[d]
      BY <1>4, <2>1
    <3> QED
      BY <1>1, <1>3, <3>1, SumUpdate
  <2>4. remaining'[c] = 0 /\ voided'[c] = remaining[c]
    BY <1>4, <2>1
  <2>5. a' = a /\ {d \in Cards : status'[d] # "absent"} = {d \in Cards : status[d] # "absent"}
    BY <1>4, <2>1
  <2>6. a' + b' + v' = a + b + v /\ n' = n
    <3>1. b' = Sum(Cards, remaining') /\ v' = Sum(Cards, voided')
      OBVIOUS
    <3>2. remaining[c] \in Nat /\ n' = n
      BY <1>1, <2>5
    <3> QED
      BY <1>1, <2>1, <2>2, <2>3, <2>4, <2>5, <3>1, <3>2
  <2> QED
    BY <1>2, <2>6 DEF BooksBalance
<1>9. CASE UNCHANGED cardVars
  BY <1>5, <1>9 DEF cardVars
<1> QED
  BY <1>5, <1>6, <1>7, <1>8, <1>9 DEF CardNext, Lookup, Refuse, PassExpiry

----------------------------------------------------------------------------
(* GiftCards: what the jobs promise.                                       *)

JobsShape ==
  /\ CardInv /\ LeaseShape /\ Fulfilling
  /\ payment \in [Sales -> {"open", "paid", "answered"}]
  /\ mails \in [Cards -> 0..MaxMails] /\ deliveredAt \subseteq Cards
  /\ \A w \in Workers :
       task[w] = Off \/ (task[w].job \in Jobs /\ lease[task[w].job].status # "absent")

OneCardPerSale == \A c, d \in Cards : sale[c] = sale[d] /\ sale[c] # "none" => c = d

\* A sale has a job from its event on, which succeeds when there is a card.
SaleOK(s) ==
  /\ payment[s] = "answered" => lease[s].status # "absent" \/ s \in lost
  /\ lease[s].status # "absent" => payment[s] = "answered"
  /\ lease[s].status = "succeeded" => Sold(s)

\* A card has a job from its enqueue on, which succeeds when it was mailed, is of no use or
\* could not be read.
CardOK(c) ==
  /\ status[c] = "absent" <=> sale[c] = "none"
  /\ sale[c] # "none" =>
       /\ payment[sale[c]] = "answered"
       /\ \/ lease[c].status # "absent" \/ c \in lost
          \/ \E w \in Workers : task[w].card = c /\ task[w].at = "enqueue"
  /\ lease[c].status # "absent" => status[c] # "absent"
  /\ lease[c].status = "succeeded" => mails[c] > 0 \/ status[c] # "active" \/ c \in unread
  /\ c \in deliveredAt => mails[c] > 0

\* What a worker, or the sweep, has established by the place it is in.
TaskOK(u) ==
  /\ task[u].at \in {"lookup", "issue", "enqueue"} =>
       task[u].job \in Sales /\ payment[task[u].job] = "answered"
  /\ task[u].at \in {"enqueue", "done"} /\ task[u].job \in Sales => Sold(task[u].job)
  /\ task[u].at \in {"enqueue", "read", "send", "stamp"} =>
       task[u].card \in Cards /\ status[task[u].card] # "absent"
  /\ task[u].at \in {"read", "send", "stamp"} => task[u].job \notin Sales
  /\ task[u].job \in Cards =>
       task[u].card = task[u].job /\ task[u].at \in {"read", "send", "stamp", "done"}
  /\ task[u].at = "done" /\ task[u].job \in Cards =>
       \/ mails[task[u].job] > 0 \/ status[task[u].job] \notin {"absent", "active"}
       \/ task[u].job \in unread
  /\ task[u].at = "stamp" => mails[task[u].card] > 0

Delivers(u, c) == task[u].card = c /\ task[u].at \in {"send", "stamp"}

\* A card whose deliveries did not overlap, and were recorded.
MailOK(c) ==
  /\ mails[c] <= 1
  /\ mails[c] > 0 =>
       c \in deliveredAt \/ \E u \in Workers \cup {Sweep} : task[u].card = c /\ task[u].at = "stamp"
  /\ \A u \in Workers \cup {Sweep} : task[u].card = c /\ task[u].at = "send" => mails[c] = 0
  /\ \A u, v \in Workers \cup {Sweep} : Delivers(u, c) /\ Delivers(v, c) => u = v

JobsInv ==
  /\ JobsShape /\ OneCardPerSale
  /\ \A s \in Sales : SaleOK(s)
  /\ \A c \in Cards : CardOK(c)
  /\ \A u \in Workers \cup {Sweep} : TaskOK(u)
  /\ \A c \in Cards \ shaky : MailOK(c)

\* What no step takes back.
Onward ==
  /\ \A s \in Sales : payment[s] = "answered" => payment'[s] = "answered"
  /\ \A c \in Cards : sale[c] # "none" => sale'[c] = sale[c]
  /\ \A c \in Cards : status[c] # "absent" =>
       status'[c] # "absent" /\ (status[c] # "active" => status'[c] # "active")
  /\ \A c \in Cards : mails'[c] >= mails[c]
  /\ lost \subseteq lost' /\ deliveredAt \subseteq deliveredAt' /\ unread \subseteq unread'

LEMMA OffTask == Off \in Tasks /\ Off.at = "off" /\ Off.job = "none" /\ Off.card = "none"
BY DEF Off, Tasks

LEMMA JobsInitially == Init => JobsInv
<1> SUFFICES ASSUME Init PROVE JobsInv
  OBVIOUS
<1>1. JobsShape /\ \A j \in Jobs : lease[j].status = "absent"
  <2>1. CardInv /\ Fulfilling /\ LeaseShape /\ \A j \in Jobs : lease[j].status = "absent"
    BY CardInitially, FulfillingInitially, LeaseInitially DEF Init
  <2>2. /\ payment \in [Sales -> {"open", "paid", "answered"}]
        /\ mails \in [Cards -> 0..MaxMails] /\ deliveredAt \subseteq Cards
        /\ \A w \in Workers : task[w] = Off
    BY JobsAssumption DEF Init
  <2> QED
    BY <2>1, <2>2 DEF JobsShape
<1>2. OneCardPerSale /\ \A c \in Cards : CardOK(c)
  BY <1>1, CardAssumption, JobsAssumption DEF Init, CardInit, OneCardPerSale, CardOK
<1>3. \A s \in Sales : SaleOK(s)
  BY <1>1, JobsAssumption DEF Init, SaleOK
<1>4. \A u \in Workers \cup {Sweep} : task[u] = Off
  BY DEF Init
<1>5. \A u \in Workers \cup {Sweep} : TaskOK(u)
  BY <1>4, OffTask, CardAssumption DEF TaskOK
<1>6. \A c \in Cards : MailOK(c)
  BY <1>4, OffTask DEF Init, MailOK, Delivers
<1> QED
  BY <1>1, <1>2, <1>3, <1>5, <1>6 DEF JobsInv

\* The steps by which the row of a job comes to be, or succeeds.
LEMMA JobsMove ==
  ASSUME JobsInv, [Next]_vars
  PROVE  /\ LeaseShape'
         /\ \A j \in Jobs :
              /\ lease[j].status # "absent" => lease'[j].status # "absent"
              /\ lease[j].status = "absent" /\ lease'[j].status # "absent" =>
                   \/ j \in Sales /\ Webhook(j)
                   \/ \E w \in Workers : FulfilEnqueue(w) /\ task[w].card = j
              /\ lease[j].status # "succeeded" /\ lease'[j].status = "succeeded" =>
                   \E w \in Workers : End(w) /\ task[w].job = j
<1> DEFINE Row(j) ==
             /\ lease[j].status # "absent" => lease'[j].status # "absent"
             /\ lease[j].status = "absent" /\ lease'[j].status # "absent" =>
                  \/ j \in Sales /\ Webhook(j)
                  \/ \E w \in Workers : FulfilEnqueue(w) /\ task[w].card = j
             /\ lease[j].status # "succeeded" /\ lease'[j].status = "succeeded" =>
                  \E w \in Workers : End(w) /\ task[w].job = j
<1>1. LeaseShape /\ Sales \subseteq Jobs /\ Cards \subseteq Jobs
  BY JobsAssumption DEF JobsInv, JobsShape
<1>2. ASSUME UNCHANGED lease PROVE LeaseShape' /\ \A j \in Jobs : Row(j)
  BY <1>1, <1>2 DEF LeaseShape
<1>3. ASSUME NEW j \in Jobs, OnlyJob(j), Row(j) PROVE LeaseShape' /\ \A i \in Jobs : Row(i)
  BY <1>3 DEF OnlyJob
<1>4. ASSUME NEW s \in Sales, Webhook(s) PROVE LeaseShape' /\ \A j \in Jobs : Row(j)
  <2>1. CASE Change(s, Enqueued(lease[s]))
    <3>1. OnlyJob(s) /\ Row(s)
      BY <1>1, <1>4, <2>1, QueueSteps
    <3> QED
      BY <1>1, <1>3, <3>1
  <2> QED
    BY <1>2, <1>4, <2>1 DEF Webhook
<1>5. ASSUME NEW w \in Workers, FulfilEnqueue(w) PROVE LeaseShape' /\ \A j \in Jobs : Row(j)
  <2> DEFINE c == task[w].card
  <2>1. c \in Cards
    BY <1>5 DEF FulfilEnqueue, In, JobsInv, TaskOK
  <2>2. CASE Change(c, Enqueued(lease[c]))
    <3>1. OnlyJob(c) /\ Row(c)
      BY <1>1, <1>5, <2>1, <2>2, QueueSteps
    <3> QED
      BY <1>1, <1>3, <2>1, <3>1
  <2> QED
    BY <1>2, <1>5, <2>2 DEF FulfilEnqueue
<1>6. ASSUME NEW w \in Workers, task[w] # Off
      PROVE  task[w].job \in Jobs /\ lease[task[w].job].status # "absent"
  BY <1>6 DEF JobsInv, JobsShape
<1>7. ASSUME NEW w \in Workers, NEW j \in Jobs, Start(w, j) PROVE LeaseShape' /\ \A i \in Jobs : Row(i)
  <2>1. OnlyJob(j) /\ Row(j)
    BY <1>1, <1>7, WorkerSteps DEF Start
  <2> QED
    BY <1>3, <2>1
<1>8. ASSUME NEW w \in Workers, task[w].job \in Jobs, lease[task[w].job].status # "absent",
             Change(task[w].job, Failed(lease[task[w].job], w))
      PROVE  LeaseShape' /\ \A i \in Jobs : Row(i)
  <2> DEFINE j == task[w].job
  <2>1. Failed(lease[j], w) \in Leases /\ Failed(lease[j], w).status \in {"dead", "pending"}
    BY <1>1, <1>8, RowsOfWorkers DEF LeaseShape
  <2>2. OnlyJob(j) /\ lease'[j] = Failed(lease[j], w)
    BY <1>1, <1>8, <2>1, ChangeMoves
  <2> QED
    BY <1>3, <1>8, <2>1, <2>2
<1>9. ASSUME NEW u \in DOMAIN task, DeliverFail(u) \/ End(u) \/ Abort(u)
      PROVE  LeaseShape' /\ \A i \in Jobs : Row(i)
  <2>1. CASE u = Sweep
    BY <1>2, <1>9, <2>1 DEF DeliverFail, End, Abort
  <2>2. CASE u # Sweep
    <3>1. u \in Workers /\ task[u].job \in Jobs /\ lease[task[u].job].status # "absent"
      BY <1>6, <1>9, <2>2, OffTask DEF DeliverFail, End, Abort, In, JobsInv, JobsShape, Fulfilling
    <3>2. CASE DeliverFail(u)
      BY <1>8, <2>2, <3>1, <3>2 DEF DeliverFail
    <3>3. CASE End(u)
      <4>1. OnlyJob(task[u].job) /\ Row(task[u].job)
        BY <1>1, <2>2, <3>1, <3>3, WorkerSteps DEF End
      <4> QED
        BY <1>3, <3>1, <4>1
    <3>4. CASE Abort(u)
      <4>1. OnlyJob(task[u].job) /\ Row(task[u].job)
        BY <1>1, <2>2, <3>1, <3>4, WorkerSteps DEF Abort
      <4> QED
        BY <1>3, <3>1, <4>1
    <3> QED
      BY <1>9, <3>2, <3>3, <3>4
  <2> QED
    BY <2>1, <2>2
<1>10. ASSUME NEW j \in Jobs, Overdue(j) PROVE LeaseShape' /\ \A i \in Jobs : Row(i)
  <2>1. OnlyJob(j) /\ Row(j)
    BY <1>1, <1>10, QueueSteps DEF Overdue
  <2> QED
    BY <1>3, <2>1
<1>11. ASSUME NEW w \in Workers, FulfilCollide(w) PROVE LeaseShape' /\ \A i \in Jobs : Row(i)
  <2>1. task[w].job \in Jobs /\ lease[task[w].job].status # "absent"
    BY <1>6, <1>11, OffTask DEF FulfilCollide, In
  <2> QED
    BY <1>8, <1>11, <2>1 DEF FulfilCollide
<1>12. LeaseShape' /\ \A j \in Jobs : Row(j)
  <2> HIDE DEF Row
  <2>1. CASE \E s \in Sales : Pay(s) \/ Webhook(s)
    BY <1>2, <1>4, <2>1 DEF Pay
  <2>2. CASE \E w \in Workers : Fulfil(w) \/ \E j \in Jobs : Start(w, j)
    BY <1>2, <1>5, <1>7, <1>11, <2>2 DEF Fulfil, FulfilLookup, FulfilIssue
  <2>3. CASE \E w \in DOMAIN task : Deliver(w) \/ End(w) \/ Abort(w)
    BY <1>2, <1>9, <2>3 DEF Deliver, DeliverRead, DeliverSend, DeliverStamp
  <2>4. CASE \E c \in Cards : SweepStart(c)
    BY <1>2, <2>4 DEF SweepStart
  <2>5. CASE UNCHANGED vars \/ (Counter /\ UNCHANGED <<lease, payment, task, mailVars, lost, faults>>)
    BY <1>2, <2>5 DEF vars
  <2> QED
    BY <1>10, <2>1, <2>2, <2>3, <2>4, <2>5 DEF Next
<1> QED
  BY <1>12

LEMMA GoesOnward ==
  ASSUME JobsInv, [Next]_vars
  PROVE  Onward
<1>1. [CardNext]_cardVars /\ CardInv
  BY JobsStep DEF JobsInv, JobsShape
<1>2. /\ status \in [Cards -> {"absent", "active", "depleted", "void"}]
      /\ sale \in [Cards -> Sales \cup {"none"}]
      /\ mails \in [Cards -> 0..MaxMails] /\ payment \in [Sales -> {"open", "paid", "answered"}]
  BY DEF JobsInv, JobsShape, CardInv, CardShape, CardTypeOK
<1>3. ASSUME NEW c \in Cards
      PROVE  /\ sale[c] # "none" => sale'[c] = sale[c]
             /\ status[c] # "absent" =>
                  status'[c] # "absent" /\ (status[c] # "active" => status'[c] # "active")
  <2>1. CASE \E s \in Sales, d \in Cards : Issue(s, d)
    BY <1>2, <2>1 DEF Issue, JobsInv, CardOK
  <2>2. CASE \E t \in Tills : Redeem(t)
    BY <1>2, <2>2 DEF Redeem
  <2>3. CASE \E d \in Cards : Void(d)
    BY <1>2, <2>3 DEF Void
  <2>4. CASE UNCHANGED <<status, sale>>
    BY <2>4
  <2> QED
    BY <1>1, <2>1, <2>2, <2>3, <2>4 DEF CardNext, cardVars, Refuse, Lookup, PassExpiry
<1>4. \A s \in Sales : payment[s] = "answered" => payment'[s] = "answered"
  <2>1. CASE \E s \in Sales : Pay(s) \/ Webhook(s)
    BY <1>2, <2>1 DEF Pay, Webhook
  <2>2. CASE UNCHANGED payment
    BY <2>2
  <2> QED
    BY <2>1, <2>2 DEF Next, vars, Fulfil, FulfilLookup, FulfilIssue, FulfilCollide, FulfilEnqueue,
       Deliver, DeliverRead, DeliverSend, DeliverFail, DeliverStamp, End, Abort, Start, SweepStart, Overdue
<1>5. \A c \in Cards : mails'[c] >= mails[c]
  <2>1. MaxMails \in Nat \ {0}
    BY JobsAssumption
  <2>2. CASE \E w \in DOMAIN task : DeliverSend(w) \/ DeliverFail(w)
    BY <1>2, <2>1, <2>2 DEF DeliverSend, DeliverFail, Mail
  <2>3. CASE UNCHANGED mails
    BY <1>2, <2>3
  <2> QED
    BY <2>2, <2>3 DEF Next, vars, mailVars, Fulfil, FulfilLookup, FulfilIssue, FulfilCollide, FulfilEnqueue,
       Deliver, DeliverRead, DeliverStamp, End, Abort, Start, SweepStart, Overdue, Pay, Webhook
<1>6. lost \subseteq lost' /\ deliveredAt \subseteq deliveredAt' /\ unread \subseteq unread'
  BY DEF Next, vars, mailVars, Fulfil, FulfilLookup, FulfilIssue, FulfilCollide, FulfilEnqueue,
     Deliver, DeliverRead, DeliverSend, DeliverFail, DeliverStamp, End, Abort, Start, SweepStart, Overdue,
     Pay, Webhook
<1> QED
  BY <1>3, <1>4, <1>5, <1>6 DEF Onward

\* A worker keeps its job until it is off.
LEMMA WhereTasksGo ==
  ASSUME JobsInv, [Next]_vars, NEW w \in Workers
  PROVE  \/ task'[w] = task[w]
         \/ task'[w] = Off
         \/ task[w] # Off /\ task'[w].job = task[w].job
         \/ \E j \in Jobs : Start(w, j)
<1> USE DEF In, Go
<1>1. task \in [Workers \cup {Sweep} -> Tasks] /\ DOMAIN task = Workers \cup {Sweep}
  BY DEF JobsInv, JobsShape, Fulfilling
<1>2. ASSUME NEW u \in Workers \cup {Sweep}, NEW p, task' = [task EXCEPT ![u].at = p], task[u].at # "off"
      PROVE  task'[w] = task[w] \/ (task[w] # Off /\ task'[w].job = task[w].job)
  BY <1>1, <1>2, OffTask DEF Tasks
<1>3. ASSUME NEW u \in Workers, NEW c, task' = [task EXCEPT ![u].at = "enqueue", ![u].card = c],
             task[u].at # "off"
      PROVE  task'[w] = task[w] \/ (task[w] # Off /\ task'[w].job = task[w].job)
  BY <1>1, <1>3, OffTask DEF Tasks
<1>4. ASSUME NEW u \in Workers \cup {Sweep}, NEW q, task' = [task EXCEPT ![u] = q]
      PROVE  task'[w] = task[w] \/ (u = w /\ task'[w] = q)
  BY <1>1, <1>4
<1>5. ASSUME NEW u \in Workers, NEW j \in Jobs, Start(u, j)
      PROVE  task'[w] = task[w] \/ Start(w, j)
  BY <1>4, <1>5 DEF Start
<1>6. ASSUME NEW u \in Workers, Fulfil(u)
      PROVE  task'[w] = task[w] \/ task'[w] = Off \/ (task[w] # Off /\ task'[w].job = task[w].job)
  <2>1. CASE FulfilLookup(u) \/ FulfilEnqueue(u)
    BY <1>2, <2>1 DEF FulfilLookup, FulfilEnqueue
  <2>2. CASE FulfilIssue(u)
    BY <1>3, <2>2 DEF FulfilIssue
  <2>3. CASE FulfilCollide(u)
    BY <1>4, <2>3 DEF FulfilCollide
  <2> QED
    BY <1>6, <2>1, <2>2, <2>3 DEF Fulfil
<1>7. ASSUME NEW u \in Workers \cup {Sweep}, Deliver(u) \/ End(u) \/ Abort(u)
      PROVE  task'[w] = task[w] \/ task'[w] = Off \/ (task[w] # Off /\ task'[w].job = task[w].job)
  <2>1. CASE DeliverRead(u) \/ DeliverSend(u) \/ DeliverStamp(u)
    BY <1>2, <2>1 DEF DeliverRead, DeliverSend, DeliverStamp
  <2>2. CASE DeliverFail(u) \/ End(u) \/ Abort(u)
    BY <1>4, <2>2 DEF DeliverFail, End, Abort
  <2> QED
    BY <1>7, <2>1, <2>2 DEF Deliver
<1>8. ASSUME NEW c \in Cards, SweepStart(c) PROVE task'[w] = task[w]
  BY <1>1, <1>8, JobsAssumption DEF SweepStart
<1>9. CASE UNCHANGED task
  BY <1>9
<1> QED
  BY <1>1, <1>5, <1>6, <1>7, <1>8, <1>9 DEF Next, Pay, Webhook, Overdue, vars

LEMMA JobsShapeKeeps ==
  ASSUME JobsInv, [Next]_vars
  PROVE  JobsShape'
<1> USE DEF JobsInv, JobsShape
<1>1. CardInv' /\ LeaseShape' /\ Fulfilling'
  BY JobsStep, CardStepKeeps, JobsMove, FulfillingKeeps
<1>2. payment' \in [Sales -> {"open", "paid", "answered"}]
  <2>1. CASE \E s \in Sales : Pay(s) \/ Webhook(s)
    BY <2>1 DEF Pay, Webhook
  <2>2. CASE UNCHANGED payment
    BY <2>2
  <2> QED
    BY <2>1, <2>2 DEF Next, vars, Fulfil, FulfilLookup, FulfilIssue, FulfilCollide, FulfilEnqueue,
       Deliver, DeliverRead, DeliverSend, DeliverFail, DeliverStamp, End, Abort, Start, SweepStart, Overdue
<1>3. mails' \in [Cards -> 0..MaxMails]
  <2>1. MaxMails \in Nat \ {0}
    BY JobsAssumption
  <2>2. CASE \E w \in DOMAIN task : DeliverSend(w) \/ DeliverFail(w)
    BY <2>1, <2>2 DEF DeliverSend, DeliverFail, Mail
  <2>3. CASE UNCHANGED mails
    BY <2>3
  <2> QED
    BY <2>2, <2>3 DEF Next, vars, mailVars, Fulfil, FulfilLookup, FulfilIssue, FulfilCollide, FulfilEnqueue,
       Deliver, DeliverRead, DeliverStamp, End, Abort, Start, SweepStart, Overdue, Pay, Webhook
<1>4. deliveredAt' \subseteq Cards
  <2>1. CASE \E w \in Workers \cup {Sweep} : DeliverStamp(w)
    BY <2>1 DEF DeliverStamp, In, TaskOK
  <2>2. CASE UNCHANGED deliveredAt
    BY <2>2
  <2> QED
    BY <2>1, <2>2 DEF Next, vars, mailVars, Fulfil, FulfilLookup, FulfilIssue, FulfilCollide, FulfilEnqueue,
       Deliver, DeliverRead, DeliverSend, DeliverFail, End, Abort, Start, SweepStart, Overdue, Pay, Webhook,
       Fulfilling
<1>5. ASSUME NEW w \in Workers
      PROVE  task'[w] = Off \/ (task'[w].job \in Jobs /\ lease'[task'[w].job].status # "absent")
  <2>3. task[w] # Off => task[w].job \in Jobs /\ lease'[task[w].job].status # "absent"
    <3>1. task[w] # Off => task[w].job \in Jobs /\ lease[task[w].job].status # "absent"
      OBVIOUS
    <3> HIDE DEF JobsInv, JobsShape
    <3> QED
      BY <3>1, JobsMove
  <2> HIDE DEF JobsInv, JobsShape
  <2>1. CASE task'[w] = task[w] \/ task'[w] = Off \/ (task[w] # Off /\ task'[w].job = task[w].job)
    BY <2>1, <2>3
  <2>2. CASE \E j \in Jobs : Start(w, j)
    <3>1. PICK j \in Jobs : Start(w, j)
      BY <2>2
    <3>2. task'[w].job = j
      BY <3>1 DEF Start, Fulfilling, JobsInv, JobsShape
    <3>3. lease'[j].status = "running"
      BY <3>1, WorkerSteps DEF Start, JobsInv, JobsShape
    <3> QED
      BY <3>1, <3>2, <3>3
  <2> QED
    BY <2>1, <2>2, WhereTasksGo
<1> QED
  BY <1>1, <1>2, <1>3, <1>4, <1>5

\* What a step that moves a worker, or the sweep, can be.
LEMMA WhoMoves ==
  ASSUME JobsInv, [Next]_vars, NEW u \in Workers \cup {Sweep}
  PROVE  \/ task'[u] = task[u]
         \/ u \in Workers /\ (Fulfil(u) \/ \E j \in Jobs : Start(u, j))
         \/ Deliver(u) \/ End(u) \/ Abort(u)
         \/ u = Sweep /\ \E c \in Cards : SweepStart(c)
<1>1. task \in [Workers \cup {Sweep} -> Tasks] /\ DOMAIN task = Workers \cup {Sweep}
  BY DEF JobsInv, JobsShape, Fulfilling
<1>2. ASSUME NEW v \in Workers \cup {Sweep}, v # u,
             Deliver(v) \/ End(v) \/ Abort(v) \/ (v \in Workers /\ (Fulfil(v) \/ \E j \in Jobs : Start(v, j)))
      PROVE  task'[u] = task[u]
  BY <1>1, <1>2 DEF Deliver, DeliverRead, DeliverSend, DeliverFail, DeliverStamp, End, Abort, Start, Go,
     Fulfil, FulfilLookup, FulfilIssue, FulfilCollide, FulfilEnqueue
<1>3. ASSUME NEW c \in Cards, SweepStart(c) PROVE task'[u] = task[u] \/ u = Sweep
  BY <1>1, <1>3 DEF SweepStart
<1>4. CASE UNCHANGED task
  BY <1>4
<1> QED
  BY <1>1, <1>2, <1>3, <1>4 DEF Next, Pay, Webhook, Overdue, vars

\* A new card comes from FulfilIssue, a delivered_at from DeliverStamp, and the answer to
\* an event from Webhook.
LEMMA Causes ==
  ASSUME JobsInv, [Next]_vars
  PROVE  /\ \A c \in Cards : sale'[c] # sale[c] => \E w \in Workers : FulfilIssue(w)
         /\ \A c \in Cards : c \in deliveredAt' \ deliveredAt =>
              \E u \in Workers \cup {Sweep} : DeliverStamp(u) /\ task[u].card = c
         /\ \A s \in Sales : payment'[s] = "answered" /\ payment[s] # "answered" => Webhook(s)
<1>1. DOMAIN task = Workers \cup {Sweep} /\ payment \in [Sales -> {"open", "paid", "answered"}]
  BY DEF JobsInv, JobsShape, Fulfilling
<1>2. sale' = sale \/ \E w \in Workers : FulfilIssue(w)
  BY DEF Next, vars, cardVars, Fulfil, FulfilLookup, FulfilCollide, FulfilEnqueue,
     Deliver, DeliverRead, DeliverSend, DeliverFail, DeliverStamp, End, Abort, Start, SweepStart, Overdue,
     Pay, Webhook, Counter, Redeem, Refuse, Lookup, Void, PassExpiry
<1>3. deliveredAt' = deliveredAt \/ \E u \in DOMAIN task : DeliverStamp(u)
  BY DEF Next, vars, mailVars, Fulfil, FulfilLookup, FulfilIssue, FulfilCollide, FulfilEnqueue,
     Deliver, DeliverRead, DeliverSend, DeliverFail, End, Abort, Start, SweepStart, Overdue, Pay, Webhook
<1>4. payment' = payment \/ \E s \in Sales : Pay(s) \/ Webhook(s)
  BY DEF Next, vars, Fulfil, FulfilLookup, FulfilIssue, FulfilCollide, FulfilEnqueue,
     Deliver, DeliverRead, DeliverSend, DeliverFail, DeliverStamp, End, Abort, Start, SweepStart, Overdue
<1>5. \A c \in Cards : c \in deliveredAt' \ deliveredAt =>
        \E u \in Workers \cup {Sweep} : DeliverStamp(u) /\ task[u].card = c
  BY <1>1, <1>3 DEF DeliverStamp
<1>6. \A s \in Sales : payment'[s] = "answered" /\ payment[s] # "answered" => Webhook(s)
  BY <1>1, <1>4 DEF Pay, Webhook
<1> QED
  BY <1>2, <1>5, <1>6

\* A worker about to issue does so for a sale that has no card.
LEMMA IssueFacts ==
  ASSUME JobsInv, NEW w \in Workers, FulfilIssue(w)
  PROVE  \E c \in Cards :
           /\ status[c] = "absent" /\ ~Sold(task[w].job)
           /\ status' = [status EXCEPT ![c] = "active"] /\ sale' = [sale EXCEPT ![c] = task[w].job]
           /\ task'[w] = [task[w] EXCEPT !.at = "enqueue", !.card = c]
           /\ task[w].job \in Sales /\ payment[task[w].job] = "answered"
<1>1. PICK c \in Cards : /\ Issue(task[w].job, c)
                         /\ task' = [task EXCEPT ![w].at = "enqueue", ![w].card = c]
  BY DEF FulfilIssue
<1>2. task[w].job \in Sales /\ payment[task[w].job] = "answered"
  BY DEF FulfilIssue, In, JobsInv, TaskOK
<1>3. task'[w] = [task[w] EXCEPT !.at = "enqueue", !.card = c]
  BY <1>1 DEF JobsInv, JobsShape, Fulfilling
<1> QED
  BY <1>1, <1>2, <1>3 DEF Issue

LEMMA SalesKeep ==
  ASSUME JobsInv, [Next]_vars
  PROVE  OneCardPerSale' /\ \A s \in Sales : SaleOK(s)'
<1>1. Onward /\ JobsShape'
  BY GoesOnward, JobsShapeKeeps
<1>2. /\ sale \in [Cards -> Sales \cup {"none"}]
      /\ \A c \in Cards : sale'[c] = "none" => sale[c] = "none"
  BY <1>1, CardAssumption DEF JobsInv, JobsShape, CardInv, CardShape, CardTypeOK, Onward
<1>3. ASSUME NEW s \in Sales, Sold(s) PROVE Sold(s)'
  BY <1>1, <1>3, CardAssumption DEF Sold, Onward
<1>4. OneCardPerSale'
  <2>1. CASE \A c \in Cards : sale'[c] = sale[c]
    BY <2>1 DEF OneCardPerSale, JobsInv
  <2>2. CASE \E w \in Workers : FulfilIssue(w)
    <3>1. PICK w \in Workers : FulfilIssue(w)
      BY <2>2
    <3>2. PICK c \in Cards : ~Sold(task[w].job) /\ sale' = [sale EXCEPT ![c] = task[w].job]
      BY <3>1, IssueFacts
    <3>3. \A d \in Cards : sale[d] # task[w].job
      BY <3>2 DEF Sold
    <3>4. /\ \A d \in Cards \ {c} : sale'[d] = sale[d]
          /\ sale'[c] = task[w].job
      BY <1>2, <3>2
    <3> QED
      BY <3>3, <3>4 DEF OneCardPerSale, JobsInv
  <2> QED
    BY <2>1, <2>2, Causes
<1>5. ASSUME NEW s \in Sales PROVE SaleOK(s)'
  <2>1. SaleOK(s) /\ s \in Jobs
    BY JobsAssumption DEF JobsInv
  <2>2. ASSUME Webhook(s) PROVE lease'[s].status # "absent" \/ s \in lost'
    BY <2>1, <2>2, QueueSteps DEF Webhook, JobsInv, JobsShape
  <2>3. payment'[s] = "answered" => lease'[s].status # "absent" \/ s \in lost'
    BY <1>1, <2>1, <2>2, Causes, JobsMove DEF Onward, SaleOK
  <2>4. lease'[s].status # "absent" => payment'[s] = "answered"
    <3>1. CASE lease[s].status # "absent"
      BY <1>1, <2>1, <3>1 DEF SaleOK, Onward
    <3>2. CASE Webhook(s)
      BY <3>2 DEF Webhook, JobsInv, JobsShape
    <3>3. \A w \in Workers : FulfilEnqueue(w) => task[w].card # s
      BY JobsAssumption DEF FulfilEnqueue, In, JobsInv, TaskOK
    <3> QED
      BY <2>1, <3>1, <3>2, <3>3, JobsMove
  <2>5. lease'[s].status = "succeeded" => Sold(s)'
    <3>1. CASE lease[s].status = "succeeded"
      BY <1>3, <2>1, <3>1 DEF SaleOK
    <3>2. \A w \in Workers : End(w) /\ task[w].job = s => Sold(s)
      BY DEF End, In, JobsInv, TaskOK
    <3> QED
      BY <1>3, <2>1, <3>1, <3>2, JobsMove
  <2> QED
    BY <2>3, <2>4, <2>5 DEF SaleOK
<1> QED
  BY <1>4, <1>5

LEMMA CardsKeep ==
  ASSUME JobsInv, [Next]_vars, NEW c \in Cards
  PROVE  CardOK(c)'
<1>1. Onward /\ JobsShape' /\ CardOK(c) /\ c \in Jobs /\ c \notin Sales
  BY GoesOnward, JobsShapeKeeps, JobsAssumption DEF JobsInv
<1>2. /\ sale \in [Cards -> Sales \cup {"none"}] /\ "none" \notin Sales
      /\ status \in [Cards -> {"absent", "active", "depleted", "void"}]
      /\ mails[c] \in Nat /\ mails'[c] \in Nat
  BY <1>1, CardAssumption, JobsAssumption DEF JobsInv, JobsShape, CardInv, CardShape, CardTypeOK
<1>3. ASSUME sale[c] = "none", sale'[c] # "none"
      PROVE  /\ status'[c] = "active" /\ payment'[sale'[c]] = "answered"
             /\ \E w \in Workers : task'[w].card = c /\ task'[w].at = "enqueue"
  <2>1. PICK w \in Workers : FulfilIssue(w)
    BY <1>3, Causes
  <2>2. PICK d \in Cards :
          /\ status' = [status EXCEPT ![d] = "active"] /\ sale' = [sale EXCEPT ![d] = task[w].job]
          /\ task'[w] = [task[w] EXCEPT !.at = "enqueue", !.card = d]
          /\ task[w].job \in Sales /\ payment[task[w].job] = "answered"
    BY <2>1, IssueFacts
  <2>3. d = c /\ sale'[c] = task[w].job /\ status'[c] = "active"
    BY <1>2, <1>3, <2>2
  <2>4. task'[w].card = c /\ task'[w].at = "enqueue"
    BY <2>2, <2>3 DEF JobsInv, JobsShape, Fulfilling, Tasks
  <2>5. payment'[task[w].job] = "answered"
    BY <1>1, <2>2 DEF Onward
  <2> QED
    BY <2>3, <2>4, <2>5
<1>4. sale[c] # "none" => sale'[c] = sale[c]
  BY <1>1 DEF Onward
<1>5. status'[c] = "absent" <=> sale'[c] = "none"
  <2>1. status[c] = "absent" /\ status'[c] # "absent" => sale'[c] # "none"
    BY <1>2, JobsStep DEF JobsInv, JobsShape, CardNext, cardVars, Issue, Redeem, Redeemable, Void,
       Refuse, Lookup, PassExpiry
  <2> QED
    BY <1>1, <1>3, <1>4, <2>1 DEF CardOK, Onward
<1>6. sale'[c] # "none" => payment'[sale'[c]] = "answered"
  BY <1>1, <1>2, <1>3, <1>4 DEF CardOK, Onward
<1>7. sale'[c] # "none" =>
        \/ lease'[c].status # "absent" \/ c \in lost'
        \/ \E w \in Workers : task'[w].card = c /\ task'[w].at = "enqueue"
  <2>1. CASE lease[c].status # "absent"
    BY <1>1, <2>1, JobsMove
  <2>2. CASE c \in lost
    BY <1>1, <2>2 DEF Onward
  <2>3. ASSUME NEW w \in Workers, task[w].card = c, task[w].at = "enqueue"
        PROVE  \/ lease'[c].status # "absent" \/ c \in lost' \/ task'[w] = task[w]
    <3>1. CASE FulfilEnqueue(w)
      BY <1>1, <2>3, <3>1, QueueSteps DEF FulfilEnqueue, JobsInv, JobsShape
    <3>2. CASE Abort(w)
      BY <2>3, <3>2 DEF Abort
    <3>3. task[w] # Off /\ w # Sweep
      BY <2>3, OffTask, JobsAssumption
    <3> QED
      BY <2>3, <3>1, <3>2, <3>3, WhoMoves DEF Fulfil, FulfilLookup, FulfilIssue, FulfilCollide, Start,
         Deliver, DeliverRead, DeliverSend, DeliverFail, DeliverStamp, End, In
  <2> QED
    BY <1>1, <1>3, <2>1, <2>2, <2>3 DEF CardOK
<1>8. lease'[c].status # "absent" => status'[c] # "absent"
  <2>1. \A w \in Workers : FulfilEnqueue(w) /\ task[w].card = c => status[c] # "absent"
    BY DEF FulfilEnqueue, In, JobsInv, TaskOK
  <2> QED
    BY <1>1, <2>1, JobsMove DEF CardOK, Onward
<1>9. lease'[c].status = "succeeded" => mails'[c] > 0 \/ status'[c] # "active" \/ c \in unread'
  <2>1. \A w \in Workers : End(w) /\ task[w].job = c =>
          mails[c] > 0 \/ status[c] \notin {"absent", "active"} \/ c \in unread
    BY DEF End, In, JobsInv, TaskOK
  <2>2. lease'[c].status = "succeeded" =>
          mails[c] > 0 \/ status[c] \notin {"absent", "active"} \/ c \in unread
    BY <1>1, <2>1, JobsMove DEF CardOK
  <2> QED
    BY <1>1, <1>2, <2>2 DEF Onward
<1>10. c \in deliveredAt' => mails'[c] > 0
  <2>1. \A u \in Workers \cup {Sweep} : DeliverStamp(u) /\ task[u].card = c => mails[c] > 0
    BY DEF DeliverStamp, In, JobsInv, TaskOK
  <2>2. c \in deliveredAt' => mails[c] > 0
    BY <1>1, <2>1, Causes DEF CardOK
  <2> QED
    BY <1>1, <1>2, <2>2 DEF Onward
<1> QED
  BY <1>5, <1>6, <1>7, <1>8, <1>9, <1>10 DEF CardOK

LEMMA TasksKeep ==
  ASSUME JobsInv, [Next]_vars, NEW u \in Workers \cup {Sweep}
  PROVE  TaskOK(u)'
<1>1. Onward /\ JobsShape' /\ TaskOK(u)
  BY GoesOnward, JobsShapeKeeps DEF JobsInv
<1>2. /\ task \in [Workers \cup {Sweep} -> Tasks] /\ Sales \cap Cards = {} /\ Jobs = Sales \cup Cards
      /\ mails \in [Cards -> 0..MaxMails] /\ mails' \in [Cards -> 0..MaxMails] /\ MaxMails \in Nat \ {0}
      /\ "none" \notin Sales \cup Cards
  BY <1>1, CardAssumption, JobsAssumption DEF JobsInv, JobsShape, Fulfilling
<1>3. ASSUME NEW s \in Sales, Sold(s) PROVE Sold(s)'
  BY <1>1, <1>3, <1>2 DEF Sold, Onward
<1>4. CASE task'[u] = task[u]
  BY <1>1, <1>2, <1>3, <1>4 DEF TaskOK, Onward
<1>5. CASE task'[u] = Off
  BY <1>2, <1>5, OffTask DEF TaskOK
<1>6. ASSUME NEW p, task' = [task EXCEPT ![u].at = p]
      PROVE  task'[u].at = p /\ task'[u].job = task[u].job /\ task'[u].card = task[u].card
  BY <1>2, <1>6 DEF Tasks
<1>7. CASE u \in Workers /\ FulfilLookup(u)
  <2>1. task[u].at = "lookup" /\ task[u].job \in Sales /\ payment[task[u].job] = "answered"
    BY <1>1, <1>7 DEF FulfilLookup, In, TaskOK
  <2>2. /\ task'[u].job = task[u].job
        /\ task'[u].at = "issue" \/ (task'[u].at = "done" /\ Sold(task[u].job))
    BY <1>6, <1>7 DEF FulfilLookup, Go
  <2> QED
    BY <1>1, <1>2, <1>3, <2>1, <2>2 DEF TaskOK, Onward
<1>8. CASE u \in Workers /\ FulfilIssue(u)
  <2>1. PICK c \in Cards :
          /\ status' = [status EXCEPT ![c] = "active"] /\ sale' = [sale EXCEPT ![c] = task[u].job]
          /\ task'[u] = [task[u] EXCEPT !.at = "enqueue", !.card = c]
          /\ task[u].job \in Sales /\ payment[task[u].job] = "answered"
    BY <1>8, IssueFacts
  <2>2. task'[u].at = "enqueue" /\ task'[u].card = c /\ task'[u].job = task[u].job
    BY <1>2, <2>1 DEF Tasks
  <2>3. Sold(task[u].job)' /\ status'[c] = "active"
    BY <2>1 DEF Sold, JobsInv, JobsShape, CardInv, CardShape, CardTypeOK
  <2> QED
    BY <1>1, <1>2, <2>1, <2>2, <2>3 DEF TaskOK, Onward
<1>9. CASE u \in Workers /\ FulfilEnqueue(u)
  <2>1. task[u].at = "enqueue" /\ task[u].job \in Sales /\ Sold(task[u].job)
    BY <1>1, <1>9 DEF FulfilEnqueue, In, TaskOK
  <2>2. task'[u].job = task[u].job /\ task'[u].at = "done"
    BY <1>6, <1>9 DEF FulfilEnqueue, Go
  <2> QED
    BY <1>2, <1>3, <2>1, <2>2 DEF TaskOK
<1>10. ASSUME NEW j \in Jobs, u \in Workers, Start(u, j) PROVE TaskOK(u)'
  <2>1. lease[j].status = "pending"
    BY <1>10 DEF Start, Claim
  <2>2. CASE j \in Sales
    <3>1. task'[u] = [at |-> "lookup", job |-> j, card |-> "none"]
      BY <1>2, <1>10, <2>2 DEF Start
    <3>2. payment'[j] = "answered"
      BY <1>1, <2>1, <2>2 DEF JobsInv, SaleOK, Onward
    <3> QED
      BY <1>2, <2>2, <3>1, <3>2 DEF TaskOK
  <2>3. CASE j \in Cards
    <3>1. task'[u] = [at |-> "read", job |-> j, card |-> j]
      BY <1>2, <1>10, <2>3 DEF Start
    <3>2. status'[j] # "absent"
      BY <1>1, <2>1, <2>3 DEF JobsInv, CardOK, Onward
    <3> QED
      BY <1>2, <2>3, <3>1, <3>2 DEF TaskOK
  <2> QED
    BY <1>2, <2>2, <2>3
<1>11. CASE DeliverRead(u)
  <2> DEFINE c == task[u].card
  <2>1. /\ task[u].at = "read" /\ c \in Cards /\ status[c] # "absent" /\ task[u].job \notin Sales
        /\ task[u].job \in Cards => c = task[u].job
    BY <1>1, <1>11 DEF DeliverRead, In, TaskOK
  <2>2. /\ task'[u].job = task[u].job /\ task'[u].card = c
        /\ \/ task'[u].at = "send"
           \/ task'[u].at = "done" /\ (~Deliverable(c) \/ c \in unread')
    <3>1. Go(u, "send") \/ (Go(u, "done") /\ (~Deliverable(c) \/ c \in unread'))
      BY <1>11 DEF DeliverRead
    <3> QED
      BY <1>6, <3>1 DEF Go
  <2>3. ~Deliverable(c) => mails[c] > 0 \/ status[c] \notin {"absent", "active"}
    BY <2>1 DEF Deliverable, JobsInv, CardOK
  <2>4. /\ status'[c] # "absent"
        /\ ~Deliverable(c) => mails'[c] > 0 \/ status'[c] \notin {"absent", "active"}
    BY <1>1, <1>2, <2>1, <2>3 DEF Onward
  <2> HIDE DEF c
  <2> QED
    BY <1>2, <2>1, <2>2, <2>4 DEF TaskOK
<1>12. CASE DeliverSend(u)
  <2> DEFINE c == task[u].card
  <2>1. /\ task[u].at = "send" /\ c \in Cards /\ status[c] # "absent" /\ task[u].job \notin Sales
        /\ task[u].job \in Cards => c = task[u].job
    BY <1>1, <1>12 DEF DeliverSend, In, TaskOK
  <2>2. task'[u].job = task[u].job /\ task'[u].card = c /\ task'[u].at = "stamp"
    BY <1>6, <1>12 DEF DeliverSend, Go
  <2>3. mails'[c] > 0
    BY <1>2, <1>12, <2>1 DEF DeliverSend, Mail
  <2>4. status'[c] # "absent"
    BY <1>1, <2>1 DEF Onward
  <2> HIDE DEF c
  <2> QED
    BY <1>2, <2>1, <2>2, <2>3, <2>4 DEF TaskOK
<1>13. CASE DeliverStamp(u)
  <2> DEFINE c == task[u].card
  <2>1. /\ task[u].at = "stamp" /\ c \in Cards /\ mails[c] > 0 /\ task[u].job \notin Sales
        /\ task[u].job \in Cards => c = task[u].job
    BY <1>1, <1>13 DEF DeliverStamp, In, TaskOK
  <2>2. task'[u].job = task[u].job /\ task'[u].card = c /\ task'[u].at = "done"
    BY <1>6, <1>13 DEF DeliverStamp, Go
  <2>3. mails'[c] > 0
    BY <1>1, <1>2, <2>1 DEF Onward
  <2> HIDE DEF c
  <2> QED
    BY <1>2, <2>1, <2>2, <2>3 DEF TaskOK
<1>14. CASE (u \in Workers /\ FulfilCollide(u)) \/ DeliverFail(u) \/ End(u) \/ Abort(u)
  <2>1. task'[u] = Off
    BY <1>2, <1>14 DEF FulfilCollide, DeliverFail, End, Abort
  <2> QED
    BY <1>5, <2>1
<1>15. ASSUME NEW c \in Cards, u = Sweep, SweepStart(c) PROVE TaskOK(u)'
  <2>1. task'[u] = [at |-> "read", job |-> "none", card |-> c]
    BY <1>2, <1>15 DEF SweepStart
  <2>2. status'[c] # "absent"
    BY <1>1, <1>15 DEF SweepStart, Onward
  <2> QED
    BY <1>2, <2>1, <2>2 DEF TaskOK
<1> QED
  BY <1>4, <1>7, <1>8, <1>9, <1>10, <1>11, <1>12, <1>13, <1>14, <1>15, WhoMoves DEF Fulfil, Deliver

\* A card keeps its one delivery if nothing is sent, nobody starts to send, and whoever
\* has sent writes delivered_at.
LEMMA MailStays ==
  ASSUME NEW c \in Cards, MailOK(c), mails'[c] = mails[c], deliveredAt \subseteq deliveredAt',
         \A u \in Workers \cup {Sweep} : Delivers(u, c)' => task'[u] = task[u],
         \A u \in Workers \cup {Sweep} :
           task[u].card = c /\ task[u].at = "stamp" => task'[u] = task[u] \/ c \in deliveredAt'
  PROVE  MailOK(c)'
BY DEF MailOK, Delivers

LEMMA MailsKeep ==
  ASSUME JobsInv, [Next]_vars, NEW c \in Cards \ shaky'
  PROVE  MailOK(c)'
<1>1. /\ task \in [Workers \cup {Sweep} -> Tasks] /\ DOMAIN task = Workers \cup {Sweep}
      /\ mails \in [Cards -> 0..MaxMails] /\ MaxMails \in Nat \ {0}
  BY JobsAssumption DEF JobsInv, JobsShape, Fulfilling
<1>2. Onward
  BY GoesOnward
<1>3. ASSUME c \notin shaky PROVE MailOK(c)
  BY <1>3 DEF JobsInv
<1>4. ASSUME NEW p, NEW u \in Workers \cup {Sweep}, task' = [task EXCEPT ![u].at = p]
      PROVE  /\ task'[u].at = p /\ task'[u].card = task[u].card
             /\ \A v \in (Workers \cup {Sweep}) \ {u} : task'[v] = task[v]
  BY <1>1, <1>4 DEF Tasks
<1>5. ASSUME NEW u \in Workers \cup {Sweep}, task' = [task EXCEPT ![u] = Off]
      PROVE  /\ task'[u].at = "off" /\ \A v \in (Workers \cup {Sweep}) \ {u} : task'[v] = task[v]
  BY <1>1, <1>5, OffTask
<1>6. ASSUME NEW u \in Workers \cup {Sweep}, DeliverRead(u) PROVE MailOK(c)'
  <2>1. /\ task[u].at = "read" /\ UNCHANGED <<mails, deliveredAt>>
        /\ \/ Deliverable(task[u].card) /\ Go(u, "send")
              /\ shaky' = shaky \cup {d \in {task[u].card} : Sending(d) # {}}
           \/ Go(u, "done") /\ UNCHANGED shaky
    BY <1>6 DEF DeliverRead, In
  <2>2. MailOK(c)
    BY <1>3, <2>1
  <2>3. CASE Go(u, "done") \/ task[u].card # c
    <3>1. \A v \in Workers \cup {Sweep} : Delivers(v, c)' => task'[v] = task[v]
      <4>1. /\ \A v \in (Workers \cup {Sweep}) \ {u} : task'[v] = task[v]
            /\ task'[u].at = "done" \/ task'[u].card # c
        <5>1. CASE Go(u, "done")
          BY <1>4, <5>1 DEF Go
        <5>2. CASE task[u].card # c
          BY <1>4, <2>1, <5>2 DEF Go
        <5>. QED BY <2>3, <5>1, <5>2
      <4>. QED BY <4>1 DEF Delivers
    <3>2. \A v \in Workers \cup {Sweep} : task[v].at = "stamp" => task'[v] = task[v]
      BY <1>4, <2>1 DEF Go
    <3> QED
      BY <2>1, <2>2, <3>1, <3>2, MailStays
  <2>4. CASE task[u].card = c /\ ~Go(u, "done")
    <3>1. c \notin deliveredAt /\ Go(u, "send") /\ Sending(c) = {}
      BY <2>1, <2>4 DEF Deliverable
    <3>2. \A v \in Workers \cup {Sweep} : ~Delivers(v, c)
      BY <1>1, <3>1 DEF Sending, Delivers
    <3>3. mails[c] = 0
      BY <1>1, <2>2, <3>1, <3>2 DEF MailOK, Delivers
    <3>4. task'[u].at = "send" /\ \A v \in (Workers \cup {Sweep}) \ {u} : task'[v] = task[v]
      BY <1>4, <3>1 DEF Go
    <3>5. \A v \in Workers \cup {Sweep} : Delivers(v, c)' => v = u
      BY <3>2, <3>4 DEF Delivers
    <3> QED
      BY <2>1, <3>3, <3>4, <3>5 DEF MailOK
  <2> QED
    BY <2>3, <2>4
<1>7. ASSUME NEW u \in Workers \cup {Sweep}, DeliverSend(u) PROVE MailOK(c)'
  <2>1. /\ task[u].at = "send" /\ UNCHANGED <<deliveredAt, shaky>> /\ Go(u, "stamp")
        /\ Mail(task[u].card, 1)
    BY <1>7 DEF DeliverSend, In
  <2>2. MailOK(c)
    BY <1>3, <2>1
  <2>3. /\ task'[u].at = "stamp" /\ task'[u].card = task[u].card
        /\ \A v \in (Workers \cup {Sweep}) \ {u} : task'[v] = task[v]
    BY <1>4, <2>1 DEF Go
  <2>4. CASE task[u].card # c
    <3>1. mails'[c] = mails[c]
      BY <1>1, <2>1, <2>4 DEF Mail
    <3>2. \A v \in Workers \cup {Sweep} : task[v].card = c => task'[v] = task[v]
      BY <2>3, <2>4
    <3>3. \A v \in Workers \cup {Sweep} : Delivers(v, c)' => task'[v] = task[v]
      BY <2>3, <2>4 DEF Delivers
    <3> QED
      BY <2>1, <2>2, <3>1, <3>2, <3>3, MailStays
  <2>5. CASE task[u].card = c
    <3>1. mails[c] = 0 /\ Delivers(u, c)
      BY <2>1, <2>2, <2>5 DEF MailOK, Delivers
    <3>2. mails'[c] = 1
      BY <1>1, <2>1, <2>5, <3>1 DEF Mail
    <3>3. \A v \in Workers \cup {Sweep} : Delivers(v, c) => v = u
      BY <2>2, <3>1 DEF MailOK
    <3>4. \A v \in Workers \cup {Sweep} : Delivers(v, c)' => v = u
      BY <2>3, <3>3 DEF Delivers
    <3> QED
      BY <2>3, <2>5, <3>2, <3>4 DEF MailOK, Delivers
  <2> QED
    BY <2>4, <2>5
<1>8. ASSUME NEW u \in Workers \cup {Sweep}, DeliverFail(u) PROVE MailOK(c)'
  <2>1. PICK got \in {0, 1} : /\ Mail(task[u].card, got)
                              /\ shaky' = shaky \cup {d \in {task[u].card} : got = 1}
    BY <1>8 DEF DeliverFail
  <2>2. task[u].at = "send" /\ deliveredAt' = deliveredAt /\ task' = [task EXCEPT ![u] = Off]
    BY <1>8 DEF DeliverFail, In
  <2>3. MailOK(c) /\ mails'[c] = mails[c]
    <3>1. c \notin shaky /\ (task[u].card = c => got = 0)
      BY <2>1
    <3> QED
      BY <1>1, <1>3, <2>1, <3>1 DEF Mail
  <2>4. \A v \in Workers \cup {Sweep} : Delivers(v, c)' => task'[v] = task[v]
    BY <1>5, <2>2 DEF Delivers
  <2>5. \A v \in Workers \cup {Sweep} : task[v].at = "stamp" => task'[v] = task[v]
    BY <1>5, <2>2
  <2> QED
    BY <2>2, <2>3, <2>4, <2>5, MailStays
<1>9. ASSUME NEW u \in Workers \cup {Sweep}, DeliverStamp(u) PROVE MailOK(c)'
  <2>1. /\ Go(u, "done") /\ mails' = mails /\ deliveredAt \subseteq deliveredAt' /\ c \notin shaky
        /\ task[u].card = c => c \in deliveredAt'
    BY <1>9 DEF DeliverStamp
  <2>2. \A v \in Workers \cup {Sweep} : Delivers(v, c)' => task'[v] = task[v]
    BY <1>4, <2>1 DEF Go, Delivers
  <2>3. \A v \in Workers \cup {Sweep} :
          task[v].card = c /\ task[v].at = "stamp" => task'[v] = task[v] \/ c \in deliveredAt'
    BY <1>4, <2>1 DEF Go
  <2> QED
    BY <1>3, <2>1, <2>2, <2>3, MailStays
<1>10. ASSUME NEW u \in Workers \cup {Sweep}, Abort(u) PROVE MailOK(c)'
  <2>1. /\ task' = [task EXCEPT ![u] = Off] /\ UNCHANGED <<mails, deliveredAt>> /\ c \notin shaky
        /\ ~(task[u].card = c /\ task[u].at = "stamp")
    BY <1>10 DEF Abort
  <2>2. \A v \in Workers \cup {Sweep} : Delivers(v, c)' => task'[v] = task[v]
    BY <1>5, <2>1 DEF Delivers
  <2>3. \A v \in Workers \cup {Sweep} : task[v].card = c /\ task[v].at = "stamp" => task'[v] = task[v]
    BY <1>5, <2>1
  <2> QED
    BY <1>3, <2>1, <2>2, <2>3, MailStays
<1>11. ASSUME UNCHANGED <<mails, deliveredAt, shaky>>,
              \A u \in Workers \cup {Sweep} :
                \/ task'[u] = task[u]
                \/ task[u].at # "stamp" /\ task'[u].at \notin {"send", "stamp"}
       PROVE  MailOK(c)'
  BY <1>3, <1>11, MailStays DEF Delivers
<1>12. ASSUME UNCHANGED mailVars,
              \A u \in Workers \cup {Sweep} : ~Deliver(u) /\ ~Abort(u)
       PROVE  MailOK(c)'
  <2>1. ASSUME NEW u \in Workers \cup {Sweep}, task'[u] # task[u]
        PROVE  task[u].at # "stamp" /\ task'[u].at \notin {"send", "stamp"}
    <3>1. CASE u \in Workers /\ (FulfilLookup(u) \/ FulfilEnqueue(u))
      BY <1>4, <3>1 DEF FulfilLookup, FulfilEnqueue, In, Go
    <3>2. CASE u \in Workers /\ FulfilIssue(u)
      <4>1. task[u] \in Tasks /\ task[u].at = "issue"
        BY <1>1, <3>2 DEF FulfilIssue, In
      <4>2. u \in Workers /\ FulfilIssue(u)
        BY <3>2
      <4>3. PICK d \in Cards :
              /\ status[d] = "absent" /\ ~Sold(task[u].job)
              /\ status' = [status EXCEPT ![d] = "active"]
              /\ sale' = [sale EXCEPT ![d] = task[u].job]
              /\ task'[u] = [task[u] EXCEPT !.at = "enqueue", !.card = d]
              /\ task[u].job \in Sales /\ payment[task[u].job] = "answered"
        BY <4>2, IssueFacts, ZenonT(40)
      <4> QED
        BY <4>1, <4>3 DEF Tasks
    <3>3. CASE (u \in Workers /\ FulfilCollide(u)) \/ End(u)
      BY <1>5, <3>3 DEF FulfilCollide, End, In
    <3>4. CASE u \in Workers /\ \E j \in Jobs : Start(u, j)
      <4>1. PICK j \in Jobs : Start(u, j)
        BY <3>4
      <4>2. task[u] = Off /\ task'[u].at \in {"lookup", "read"}
        BY <1>1, <4>1 DEF Start
      <4> QED
        BY <4>2, OffTask
    <3>5. CASE u = Sweep /\ \E d \in Cards : SweepStart(d)
      <4>1. task[u] = Off /\ task'[u].at = "read"
        BY <1>1, <3>5 DEF SweepStart
      <4> QED
        BY <4>1, OffTask
    <3> QED
      BY <1>12, <2>1, <3>1, <3>2, <3>3, <3>4, <3>5, WhoMoves DEF Fulfil
  <2> QED
    BY <1>11, <1>12, <2>1 DEF mailVars
<1>13. UNCHANGED mailVars \/ \E u \in Workers \cup {Sweep} : Deliver(u) \/ Abort(u)
  BY <1>1 DEF Next, vars, Fulfil, FulfilLookup, FulfilIssue, FulfilCollide, FulfilEnqueue, End, Start,
     SweepStart, Overdue, Pay, Webhook
<1> QED
  BY <1>6, <1>7, <1>8, <1>9, <1>10, <1>12, <1>13 DEF Deliver

LEMMA JobsStepKeeps == JobsInv /\ [Next]_vars => JobsInv'
<1> SUFFICES ASSUME JobsInv, [Next]_vars PROVE JobsInv'
  OBVIOUS
<1>1. JobsShape' /\ OneCardPerSale' /\ \A s \in Sales : SaleOK(s)'
  BY JobsShapeKeeps, SalesKeep
<1>2. \A c \in Cards : CardOK(c)'
  BY CardsKeep
<1>3. \A u \in Workers \cup {Sweep} : TaskOK(u)'
  BY TasksKeep
<1>4. \A c \in Cards \ shaky' : MailOK(c)'
  BY MailsKeep
<1> QED
  BY <1>1, <1>2, <1>3, <1>4 DEF JobsInv

LEMMA JobsInvariance == Spec => [](JobsInv /\ BooksBalance)
<1>1. Init => JobsInv /\ BooksBalance
  BY JobsInitially, BooksInitially DEF Init
<1>2. JobsInv /\ BooksBalance /\ [Next]_vars => (JobsInv /\ BooksBalance)'
  <2> SUFFICES ASSUME JobsInv, BooksBalance, [Next]_vars PROVE (JobsInv /\ BooksBalance)'
    OBVIOUS
  <2>1. JobsInv'
    BY JobsStepKeeps
  <2>2. [CardNext]_cardVars /\ CardInv /\ CardInv'
    BY <2>1, JobsStep DEF JobsInv, JobsShape
  <2> QED
    BY <2>1, <2>2, BooksKeep
<1> QED
  BY <1>1, <1>2, PTL DEF Spec

\* No more cards than payments, and nothing is spent that no card held.
LEMMA NoMoreThanPaid ==
  ASSUME JobsInv, BooksBalance
  PROVE  Sum(Taps, spent) <= Value * Cardinality({s \in Sales : payment[s] # "open"})
<1> DEFINE C == {c \in Cards : status[c] # "absent"}
           P == {s \in Sales : payment[s] # "open"}
           paidBy == [c \in C |-> sale[c]]
<1>1. IsFiniteSet(P)
  BY JobsAssumption, FS_Subset
<1>2. paidBy \in [C -> P]
  BY CardAssumption DEF JobsInv, CardOK, JobsShape, CardInv, CardShape, CardTypeOK
<1>3. \A c, d \in C : paidBy[c] = paidBy[d] => c = d
  BY DEF JobsInv, CardOK, OneCardPerSale
<1>4. Cardinality(C) <= Cardinality(P)
  <2>1. paidBy \in Injection(C, P)
    BY <1>2, <1>3, Fun_IsInj
  <2> QED
    BY <1>1, <2>1, FS_Injection
<1>5. Cardinality(C) \in Nat /\ Cardinality(P) \in Nat /\ Value \in Nat
  BY <1>1, BookSums, FS_CardinalityType, CardAssumption DEF JobsInv, JobsShape
<1>6. Sum(Taps, spent) <= Value * Cardinality(C)
  <2>1. Sum(Taps, spent) + Sum(Cards, remaining) + Sum(Cards, voided) = Value * Cardinality(C)
    BY DEF BooksBalance
  <2>2. Sum(Taps, spent) \in Nat /\ Sum(Cards, remaining) \in Nat /\ Sum(Cards, voided) \in Nat
    BY BookSums DEF JobsInv, JobsShape
  <2> HIDE DEF C
  <2> QED
    BY <1>5, <2>1, <2>2
<1>7. ASSUME NEW m \in Nat, NEW n \in Nat, m <= n PROVE Value * m <= Value * n
  BY <1>5, <1>7
<1>8. Value * Cardinality(C) <= Value * Cardinality(P)
  BY <1>4, <1>5, <1>7
<1>9. Sum(Taps, spent) \in Nat
  BY BookSums DEF JobsInv, JobsShape
<1> HIDE DEF C, P
<1> QED
  BY <1>5, <1>6, <1>8, <1>9 DEF P

\* One payment, one card, whoever fulfils it and however often; and what is redeemed over
\* all cards was paid for.
THEOREM SpentWasPaid == Spec => []SpentIsPaid
<1>1. JobsInv /\ BooksBalance => SpentIsPaid
  BY NoMoreThanPaid DEF SpentIsPaid, JobsInv, OneCardPerSale, CardOK
<1> QED
  BY <1>1, JobsInvariance, PTL

\* The job and the sweep between them mail a card once, unless a delivery overlapped
\* another one or was not recorded.
THEOREM CardsMailedOnce == Spec => []MailedOnce
<1>1. JobsInv => MailedOnce
  BY DEF JobsInv, MailOK, MailedOnce
<1> QED
  BY <1>1, JobsInvariance, PTL

\* What was paid for arrives, or it is known where it was lost.
THEOREM PaymentsArrive == Spec => []PaidArrives
<1>1. JobsInv => PaidArrives
  <2> SUFFICES ASSUME JobsInv PROVE PaidArrives
    OBVIOUS
  <2>1. ASSUME NEW s \in Sales, payment[s] = "answered"
        PROVE  Sold(s) \/ s \in lost \/ lease[s].status \in {"pending", "running", "dead"}
    <3>1. lease[s].status \in Statuses /\ SaleOK(s)
      BY JobsAssumption DEF JobsInv, JobsShape, LeaseShape, Leases
    <3> QED
      BY <2>1, <3>1 DEF Statuses, SaleOK
  <2> QED
    BY <2>1 DEF PaidArrives, JobsInv, CardOK
<1> QED
  BY <1>1, JobsInvariance, PTL

----------------------------------------------------------------------------
(* Memberships.                                                            *)

\* PlanTypeOK, for a prover that must know the domain of sweep and of its records.
Cursors == UNION {[S -> Rows] : S \in SUBSET Members}
PlanShape == PlanTypeOK /\ sweep \in [Sweeps -> [open : BOOLEAN, at : Nat, rows : Cursors]]

\* A cursor holds rows that were active, and due when its sweep began.
CursorsDue ==
  \A s \in Sweeps : \A m \in DOMAIN sweep[s].rows :
    sweep[s].rows[m].status = "active" /\ sweep[s].rows[m].ends <= sweep[s].at

Granted == \A m \in Members \ stale : granted[m] = 1..row[m].billed

\* As long as no count was too low, the count about to be written is not too high.
CountsFit ==
  ~miscounted => \A d \in Staff : desk[d].at = "write" => desk[d].count <= Seats

PlanInv == PlanShape /\ CursorsDue /\ Granted /\ SeatsCovered /\ CountsFit

----------------------------------------------------------------------------
(* Arithmetic and cardinalities.                                           *)

LEMMA CatchUpType ==
  ASSUME NEW ends \in Nat, NEW at \in Nat, ends <= at
  PROVE  CatchUp(ends, at) \in Nat
<1>1. Period \in Nat \ {0}
  BY PlanAssumption
<1>2. at - ends \in Nat
  OBVIOUS
<1>3. (at - ends) \div Period \in Nat
  BY <1>1, <1>2
<1>4. \A x \in Nat : Period * (1 + x) \in Nat
  BY <1>1
<1> QED
  BY <1>3, <1>4 DEF CatchUp

LEMMA ActiveFinite == IsFiniteSet(Active) /\ Cardinality(Active) \in Nat
<1>1. Active \subseteq Members
  BY DEF Active
<1> QED
  BY <1>1, PlanAssumption, FS_Subset, FS_CardinalityType

\* Whoever leaves does not make the plan fuller.
LEMMA FewerActive ==
  ASSUME Active' \subseteq Active
  PROVE  Cardinality(Active') <= Cardinality(Active) /\ Cardinality(Active') \in Nat
BY ActiveFinite, FS_Subset, FS_CardinalityType

----------------------------------------------------------------------------
(* The steps, one after the other.                                         *)

\* What a sweep makes of a row keeps its type, and makes nobody active.
LEMMA RenewedType ==
  ASSUME NEW q \in Rows, NEW x \in Nat, NEW y \in Nat
  PROVE  /\ [q EXCEPT !.ends = x, !.billed = y] \in Rows
         /\ [q EXCEPT !.ends = x, !.billed = y].status = q.status
BY DEF Rows

LEMMA SweptType ==
  ASSUME PlanInv, NEW s \in Sweeps, NEW m \in DOMAIN sweep[s].rows
  PROVE  /\ m \in Members /\ sweep[s].rows[m] \in Rows
         /\ Swept(s, m) \in Rows
         /\ Swept(s, m).status = "active" => row[m].status = "active"
<1> DEFINE r == sweep[s].rows[m]
<1>1. m \in Members /\ r \in Rows /\ row[m] \in Rows /\ sweep[s].at \in Nat
  BY DEF PlanInv, PlanShape, PlanTypeOK
<1>2. r.ends <= sweep[s].at
  BY DEF PlanInv, CursorsDue
<1>3. CatchUp(r.ends, sweep[s].at) \in Nat
  BY <1>1, <1>2, CatchUpType DEF Rows
<1> HIDE DEF r
<1>4. r.billed + 1 \in Nat
  BY <1>1 DEF Rows
<1>5. [row[m] EXCEPT !.status = "expired"] \in Rows
  BY <1>1 DEF Rows
<1>6. /\ [row[m] EXCEPT !.ends = CatchUp(r.ends, sweep[s].at), !.billed = r.billed + 1] \in Rows
      /\ [row[m] EXCEPT !.ends = CatchUp(r.ends, sweep[s].at), !.billed = r.billed + 1].status
           = row[m].status
  BY <1>1, <1>3, <1>4, RenewedType
<1>7. [row[m] EXCEPT !.status = "expired"].status = "expired"
  BY <1>1 DEF Rows
<1> QED
  BY <1>1, <1>5, <1>6, <1>7 DEF Swept, r

LEMMA NoSweepType ==
  /\ NoSweep \in [open : BOOLEAN, at : Nat, rows : Cursors]
  /\ DOMAIN NoSweep.rows = {} /\ NoSweep.rows \in [{} -> Rows]
<1>1. DOMAIN NoSweep.rows = {} /\ NoSweep.rows \in [{} -> Rows]
  BY DEF NoSweep
<1> QED
  BY <1>1 DEF NoSweep, Cursors

LEMMA Initially == PlanInit => PlanInv
<1> SUFFICES ASSUME PlanInit PROVE PlanInv
  OBVIOUS
<1> USE DEF PlanInit
<1>1. DOMAIN NoSweep.rows = {} /\ NoSweep.rows \in [{} -> Rows]
  BY NoSweepType
<1>2. NoSweep \in [open : BOOLEAN, at : Nat, rows : Cursors]
  BY NoSweepType
<1>3. NoRow \in Rows
  BY DEF NoRow, Rows
<1>4. NoCancel \in [at : {"idle", "count", "write"}, count : Nat]
  BY DEF NoCancel
<1>5. PlanShape
  BY <1>1, <1>2, <1>3, <1>4 DEF PlanShape, PlanTypeOK, NoSweep
<1>6. CursorsDue
  BY <1>1 DEF CursorsDue
<1>7. Granted
  BY DEF Granted, NoRow
<1>8. Active = {}
  BY DEF Active, NoRow
<1>9. SeatsCovered
  BY <1>8, FS_EmptySet, PlanAssumption DEF SeatsCovered
<1>10. CountsFit
  BY DEF CountsFit, NoCancel
<1> QED
  BY <1>5, <1>6, <1>7, <1>9, <1>10 DEF PlanInv

LEMMA EnrolKeeps ==
  ASSUME PlanInv, NEW m \in Members, Enrol(m)
  PROVE  PlanInv'
<1> USE DEF PlanInv, Enrol
<1>1. row[m] \in Rows /\ Period \in Nat /\ now \in Nat
  BY PlanAssumption DEF PlanShape, PlanTypeOK
<1> DEFINE new == [status |-> "active", atEnd |-> FALSE, ends |-> now + Period,
                   billed |-> row[m].billed + 1]
<1>2. new \in Rows /\ row' = [row EXCEPT ![m] = new]
  BY <1>1 DEF Rows
<1>3. Active' = Active \cup {m}
  BY <1>2 DEF Active, PlanShape, PlanTypeOK
<1>4. m \notin Active
  BY DEF Active
<1>5. Cardinality(Active') = Cardinality(Active) + 1 /\ memberCount' = Cardinality(Active')
  BY <1>3, <1>4, ActiveFinite, FS_AddElement DEF Recount
<1>6. memberCount' \in Nat
  BY <1>5, ActiveFinite
<1>7. granted' = [granted EXCEPT ![m] = granted[m] \cup {row[m].billed + 1}]
  BY DEF Grant
<1>8. granted' \in [Members -> SUBSET Nat]
  BY <1>1, <1>7 DEF PlanShape, PlanTypeOK, Rows
<1>9. PlanShape'
  <2>1. row' \in [Members -> Rows]
    BY <1>2 DEF PlanShape, PlanTypeOK
  <2> HIDE DEF PlanInv
  <2>2. PlanShape /\ UNCHANGED <<now, sweep, desk, stale, miscounted>>
    BY DEF PlanInv
  <2> QED
    BY <1>6, <1>8, <2>1, <2>2 DEF PlanShape, PlanTypeOK
<1>10. CursorsDue'
  BY DEF CursorsDue
<1>11. Granted'
  <2> SUFFICES ASSUME NEW n \in Members, n \notin stale PROVE granted'[n] = 1..row'[n].billed
    BY DEF Granted
  <2>1. granted[n] = 1..row[n].billed
    BY DEF Granted
  <2>2. CASE n # m
    BY <2>1, <2>2, <1>2, <1>7 DEF PlanShape, PlanTypeOK
  <2>3. CASE n = m
    <3>1. row'[m].billed = row[m].billed + 1
      BY <1>2 DEF PlanShape, PlanTypeOK
    <3>2. granted'[m] = (1..row[m].billed) \cup {row[m].billed + 1}
      BY <2>1, <2>3, <1>7 DEF PlanShape, PlanTypeOK
    <3>3. row[m].billed \in Nat
      BY <1>1 DEF Rows
    <3> QED
      BY <2>3, <3>1, <3>2, <3>3
  <2> QED
    BY <2>2, <2>3
<1>12. SeatsCovered'
  BY <1>5, ActiveFinite, PlanAssumption DEF SeatsCovered, PlanShape, PlanTypeOK
<1>13. CountsFit'
  BY DEF CountsFit
<1> QED
  BY <1>9, <1>10, <1>11, <1>12, <1>13

LEMMA SweepOpenKeeps ==
  ASSUME PlanInv, NEW s \in Sweeps, SweepOpen(s)
  PROVE  PlanInv'
<1> USE DEF PlanInv, SweepOpen
<1> DEFINE due == {n \in Members : Due(n)}
           cursor == [m \in due |-> row[m]]
           new == [open |-> TRUE, at |-> now, rows |-> cursor]
<1>1. sweep' = [sweep EXCEPT ![s] = new]
  OBVIOUS
<1>2. due \subseteq Members /\ cursor \in [due -> Rows] /\ DOMAIN cursor = due
  BY DEF PlanShape, PlanTypeOK
<1>3. cursor \in Cursors
  BY <1>2 DEF Cursors
<1>4. new \in [open : BOOLEAN, at : Nat, rows : Cursors]
  BY <1>3 DEF PlanShape, PlanTypeOK
<1>5. \A m \in due : cursor[m].status = "active" /\ cursor[m].ends <= now
  BY DEF Due
<1> HIDE DEF cursor, due
<1>6. sweep' \in [Sweeps -> [open : BOOLEAN, at : Nat, rows : Cursors]]
  BY <1>1, <1>4 DEF PlanShape
<1>7. \A t \in Sweeps : sweep'[t] = IF t = s THEN new ELSE sweep[t]
  BY <1>1 DEF PlanShape
<1>8. PlanShape'
  BY <1>2, <1>6, <1>7 DEF PlanShape, PlanTypeOK
<1>9. CursorsDue'
  BY <1>2, <1>5, <1>7 DEF CursorsDue
<1>10. Active' = Active
  BY DEF Active
<1> QED
  BY <1>8, <1>9, <1>10 DEF Granted, SeatsCovered, CountsFit

LEMMA SweepCommitKeeps ==
  ASSUME PlanInv, NEW s \in Sweeps, SweepCommit(s)
  PROVE  PlanInv'
<1> USE DEF PlanInv
<1> DEFINE seen == DOMAIN sweep[s].rows
<1>1. /\ row' = [m \in Members |-> IF m \in seen THEN Swept(s, m) ELSE row[m]]
      /\ granted' = [m \in Members |->
                       IF m \in seen /\ Renews(sweep[s].rows[m])
                       THEN granted[m] \cup {NewPeriod(sweep[s].rows[m])} ELSE granted[m]]
      /\ stale' = stale \cup {m \in seen : Changed(s, m)}
      /\ sweep' = [sweep EXCEPT ![s] = NoSweep]
      /\ UNCHANGED <<memberCount, now, desk, miscounted>>
  BY DEF SweepCommit
<1>2. \A m \in seen : /\ m \in Members /\ sweep[s].rows[m] \in Rows /\ Swept(s, m) \in Rows
                      /\ Swept(s, m).status = "active" => row[m].status = "active"
  BY SweptType
<1>3. row' \in [Members -> Rows]
  BY <1>1, <1>2 DEF PlanShape, PlanTypeOK
<1>4. granted' \in [Members -> SUBSET Nat]
  <2>1. \A m \in seen : NewPeriod(sweep[s].rows[m]) \in Nat
    BY <1>2 DEF NewPeriod, Rows
  <2> QED
    BY <1>1, <2>1 DEF PlanShape, PlanTypeOK
<1>5. /\ NoSweep \in [open : BOOLEAN, at : Nat, rows : Cursors]
      /\ DOMAIN NoSweep.rows = {} /\ NoSweep.rows \in [{} -> Rows]
  BY NoSweepType
<1>6. \A t \in Sweeps : sweep'[t] = IF t = s THEN NoSweep ELSE sweep[t]
  BY <1>1 DEF PlanShape
<1>7. PlanShape'
  <2>1. sweep' \in [Sweeps -> [open : BOOLEAN, at : Nat, rows : Cursors]]
    BY <1>1, <1>5 DEF PlanShape
  <2>2. stale' \subseteq Members
    BY <1>1, <1>2 DEF PlanShape, PlanTypeOK
  <2> QED
    BY <1>1, <1>3, <1>4, <1>5, <1>6, <2>1, <2>2 DEF PlanShape, PlanTypeOK
<1>8. CursorsDue'
  BY <1>5, <1>6 DEF CursorsDue
<1>9. Granted'
  <2> SUFFICES ASSUME NEW m \in Members, m \notin stale' PROVE granted'[m] = 1..row'[m].billed
    BY DEF Granted
  <2>1. granted[m] = 1..row[m].billed /\ row[m] \in Rows
    BY <1>1 DEF Granted, PlanShape, PlanTypeOK
  <2>2. CASE m \notin seen
    BY <1>1, <2>1, <2>2
  <2>3. CASE m \in seen
    <3> DEFINE r == sweep[s].rows[m]
    <3>1. ~Changed(s, m) /\ r \in Rows
      BY <1>1, <1>2, <2>3
    <3>2. CASE ~Renews(r)
      <4>1. granted'[m] = granted[m] /\ row'[m] = [row[m] EXCEPT !.status = "expired"]
        BY <1>1, <2>3, <3>2 DEF Swept
      <4> QED
        BY <2>1, <4>1 DEF Rows
    <3>3. CASE Renews(r)
      <4>1. granted'[m] = granted[m] \cup {r.billed + 1}
        BY <1>1, <2>3, <3>3 DEF NewPeriod
      <4>2. row'[m] = [row[m] EXCEPT !.ends = CatchUp(r.ends, sweep[s].at),
                                     !.billed = r.billed + 1]
        BY <1>1, <2>3, <3>3 DEF Swept
      <4>3. row'[m].billed = r.billed + 1
        BY <2>1, <4>2 DEF Rows
      <4>4. row[m].billed = r.billed \/ row[m].billed = r.billed + 1
        BY <3>1 DEF Changed
      <4>5. r.billed \in Nat
        BY <3>1 DEF Rows
      <4> QED
        BY <2>1, <4>1, <4>3, <4>4, <4>5
    <3> QED
      BY <3>2, <3>3
  <2> QED
    BY <2>2, <2>3
<1>10. Active' \subseteq Active
  BY <1>1, <1>2 DEF Active
<1>11. SeatsCovered' /\ CountsFit'
  BY <1>1, <1>10, FewerActive, ActiveFinite, PlanAssumption
     DEF SeatsCovered, CountsFit, PlanShape, PlanTypeOK
<1> QED
  BY <1>7, <1>8, <1>9, <1>11

LEMMA SweepAbortKeeps ==
  ASSUME PlanInv, NEW s \in Sweeps, SweepAbort(s)
  PROVE  PlanInv'
<1> USE DEF PlanInv, SweepAbort
<1>1. /\ NoSweep \in [open : BOOLEAN, at : Nat, rows : Cursors]
      /\ DOMAIN NoSweep.rows = {} /\ NoSweep.rows \in [{} -> Rows]
  BY NoSweepType
<1>2. \A t \in Sweeps : sweep'[t] = IF t = s THEN NoSweep ELSE sweep[t]
  BY DEF PlanShape
<1>3. sweep' \in [Sweeps -> [open : BOOLEAN, at : Nat, rows : Cursors]]
  BY <1>1 DEF PlanShape
<1>4. PlanShape'
  BY <1>1, <1>2, <1>3 DEF PlanShape, PlanTypeOK
<1>5. CursorsDue'
  BY <1>1, <1>2 DEF CursorsDue
<1>6. Active' = Active
  BY DEF Active
<1> QED
  BY <1>4, <1>5, <1>6 DEF Granted, SeatsCovered, CountsFit

LEMMA CancelKeeps ==
  ASSUME PlanInv, NEW d \in Staff, NEW m \in Members, NEW immediately \in BOOLEAN,
         Cancel(d, m, immediately)
  PROVE  PlanInv'
<1> USE DEF PlanInv, Cancel
<1> DEFINE new == IF immediately THEN [row[m] EXCEPT !.status = "cancelled", !.atEnd = FALSE]
                  ELSE [row[m] EXCEPT !.atEnd = TRUE]
<1>1. row[m] \in Rows
  BY DEF PlanShape, PlanTypeOK
<1>2. /\ new \in Rows /\ new.billed = row[m].billed
      /\ new.status = "active" => row[m].status = "active"
  BY <1>1 DEF Rows
<1>3. row' = [row EXCEPT ![m] = new]
  OBVIOUS
<1> HIDE DEF new
<1>4. desk' \in [Staff -> [at : {"idle", "count", "write"}, count : Nat]]
  BY DEF PlanShape, PlanTypeOK
<1>5. PlanShape'
  <2>1. row' \in [Members -> Rows]
    BY <1>2, <1>3 DEF PlanShape, PlanTypeOK
  <2> QED
    BY <1>4, <2>1 DEF PlanShape, PlanTypeOK
<1>6. CursorsDue'
  BY DEF CursorsDue
<1>7. \A n \in Members : row'[n].billed = row[n].billed
  BY <1>2, <1>3 DEF PlanShape, PlanTypeOK
<1>8. Granted'
  BY <1>7 DEF Granted
<1>9. Active' \subseteq Active
  BY <1>2, <1>3 DEF Active, PlanShape, PlanTypeOK
<1>10. SeatsCovered'
  BY <1>9, FewerActive, ActiveFinite, PlanAssumption DEF SeatsCovered, PlanShape, PlanTypeOK
<1>11. CountsFit'
  BY DEF CountsFit, PlanShape, PlanTypeOK
<1> QED
  BY <1>5, <1>6, <1>8, <1>10, <1>11

LEMMA CountReadKeeps ==
  ASSUME PlanInv, NEW d \in Staff, CountRead(d)
  PROVE  PlanInv'
<1> USE DEF PlanInv, CountRead
<1>1. Active' = Active /\ Cardinality(Active) \in Nat
  BY ActiveFinite DEF Active
<1>7. PICK count \in {Cardinality(Active), 0} :
        desk' = [desk EXCEPT ![d] = [at |-> "write", count |-> count]]
  OBVIOUS
<1>2. \A e \in Staff : desk'[e] = IF e = d THEN [at |-> "write", count |-> count] ELSE desk[e]
  BY <1>7 DEF PlanShape, PlanTypeOK
<1>3. desk' \in [Staff -> [at : {"idle", "count", "write"}, count : Nat]]
  BY <1>1, <1>7 DEF PlanShape, PlanTypeOK
<1>4. PlanShape'
  BY <1>3 DEF PlanShape, PlanTypeOK
<1>5. SeatsCovered' /\ Granted' /\ CursorsDue'
  BY <1>1 DEF SeatsCovered, Granted, CursorsDue
<1>6. CountsFit'
  BY <1>1, <1>2, PlanAssumption DEF CountsFit, SeatsCovered, PlanShape, PlanTypeOK
<1> QED
  BY <1>4, <1>5, <1>6

LEMMA CountWriteKeeps ==
  ASSUME PlanInv, NEW d \in Staff, CountWrite(d)
  PROVE  PlanInv'
<1> USE DEF PlanInv, CountWrite
<1>1. Active' = Active /\ Cardinality(Active) \in Nat
  BY ActiveFinite DEF Active
<1>2. desk[d].count \in Nat /\ NoCancel \in [at : {"idle", "count", "write"}, count : Nat]
  BY DEF PlanShape, PlanTypeOK, NoCancel
<1>3. \A e \in Staff : desk'[e] = IF e = d THEN NoCancel ELSE desk[e]
  BY DEF PlanShape, PlanTypeOK
<1>4. miscounted' \in BOOLEAN /\ (~miscounted' => ~miscounted /\ ~(desk[d].count < Cardinality(Active)))
  BY DEF PlanShape, PlanTypeOK
<1>5. PlanShape'
  BY <1>2, <1>4 DEF PlanShape, PlanTypeOK
<1>6. Granted' /\ CursorsDue'
  BY DEF Granted, CursorsDue
<1>7. SeatsCovered'
  BY <1>1, <1>2, <1>4, PlanAssumption DEF SeatsCovered, CountsFit
<1>8. CountsFit'
  BY <1>3, <1>4 DEF CountsFit, NoCancel
<1> QED
  BY <1>5, <1>6, <1>7, <1>8

LEMMA CancelStopKeeps ==
  ASSUME PlanInv, NEW d \in Staff, CancelStop(d)
  PROVE  PlanInv'
<1> USE DEF PlanInv, CancelStop
<1>1. NoCancel \in [at : {"idle", "count", "write"}, count : Nat]
  BY DEF NoCancel
<1>2. \A e \in Staff : desk'[e] = IF e = d THEN NoCancel ELSE desk[e]
  BY DEF PlanShape, PlanTypeOK
<1>3. PlanShape'
  BY <1>1 DEF PlanShape, PlanTypeOK
<1>4. Granted' /\ CursorsDue' /\ Active' = Active
  BY DEF Granted, CursorsDue, Active
<1>5. SeatsCovered' /\ CountsFit'
  BY <1>2, <1>4 DEF SeatsCovered, CountsFit, NoCancel
<1> QED
  BY <1>3, <1>4, <1>5

LEMMA TickKeeps == PlanInv /\ Tick => PlanInv'
BY DEF PlanInv, Tick, PlanShape, PlanTypeOK, CursorsDue, Granted, SeatsCovered, CountsFit, Active

LEMMA StutterKeeps == PlanInv /\ UNCHANGED planVars => PlanInv'
BY DEF PlanInv, planVars, PlanShape, PlanTypeOK, CursorsDue, Granted, SeatsCovered, CountsFit, Active

LEMMA StepKeeps == PlanInv /\ [PlanNext]_planVars => PlanInv'
BY TickKeeps, EnrolKeeps, SweepOpenKeeps, SweepCommitKeeps, SweepAbortKeeps, CancelKeeps,
   CountReadKeeps, CountWriteKeeps, CancelStopKeeps, StutterKeeps DEF PlanNext

----------------------------------------------------------------------------
(* The theorems.                                                           *)

\* Every state that can be reached satisfies the inductive invariant.
THEOREM PlanInvariance == PlanSpec => []PlanInv
BY Initially, StepKeeps, PTL DEF PlanSpec

\* "Re-running never double-credits" (docs/OPERATIONS.md), for any number of sweeps that
\* overlap or are run again: a member is granted exactly the periods that were billed.
THEOREM EveryPeriodGranted == PlanSpec => []PeriodsGranted
<1>1. PlanInv => PeriodsGranted
  BY DEF PlanInv, PlanShape, Granted, PeriodsGranted
<1> QED
  BY <1>1, PlanInvariance, PTL

\* The plan is never overbooked, and its cached count never too low, while no cancellation
\* has written a count from before an enrolment.
THEOREM NeverOverbooked == PlanSpec => []SeatsCovered
<1>1. PlanInv => SeatsCovered
  BY DEF PlanInv
<1> QED
  BY <1>1, PlanInvariance, PTL

\* Who has left, or has cancelled for the end of the period, is not billed by a sweep
\* whose cursor saw the row as it is.
LEMMA CommitSparesLeavers ==
  ASSUME PlanInv, NEW s \in Sweeps, SweepCommit(s),
         NEW m \in Members, m \notin stale', row[m].status # "active" \/ row[m].atEnd
  PROVE  row'[m].billed = row[m].billed
<1> DEFINE seen == DOMAIN sweep[s].rows
           r == sweep[s].rows[m]
<1>1. row[m] \in Rows
  BY DEF PlanInv, PlanShape, PlanTypeOK
<1>2. row'[m] = IF m \in seen THEN Swept(s, m) ELSE row[m]
  BY DEF SweepCommit
<1>3. CASE m \in seen
  <2>1. ~Changed(s, m)
    BY <1>3 DEF SweepCommit
  <2>2. r.status = "active"
    BY <1>3 DEF PlanInv, CursorsDue
  <2>3. row[m] = r
    BY <2>1 DEF Changed
  <2>4. ~Renews(r)
    BY <2>2, <2>3 DEF Renews
  <2>5. row'[m] = [row[m] EXCEPT !.status = "expired"]
    BY <1>2, <1>3, <2>4 DEF Swept
  <2> QED
    BY <1>1, <2>5 DEF Rows
<1> QED
  BY <1>2, <1>3

LEMMA StepSparesLeavers ==
  ASSUME PlanInv, PlanNext, NEW m \in Members, m \notin stale',
         row[m].status # "active" \/ row[m].atEnd
  PROVE  \/ row'[m].billed = row[m].billed
         \/ row[m].status # "active" /\ row'[m].status = "active"
<1>1. row[m] \in Rows /\ \A n \in Members : row[n] \in Rows
  BY DEF PlanInv, PlanShape, PlanTypeOK
<1>2. ASSUME NEW n \in Members, Enrol(n)
      PROVE  \/ row'[m].billed = row[m].billed
             \/ row[m].status # "active" /\ row'[m].status = "active"
  BY <1>2 DEF Enrol, PlanInv, PlanShape, PlanTypeOK
<1>3. ASSUME NEW d \in Staff, NEW n \in Members, NEW immediately \in BOOLEAN,
             Cancel(d, n, immediately)
      PROVE  row'[m].billed = row[m].billed
  BY <1>1, <1>3 DEF Cancel, PlanInv, PlanShape, PlanTypeOK, Rows
<1>4. CASE UNCHANGED row
  BY <1>4
<1> QED
  BY <1>2, <1>3, <1>4, CommitSparesLeavers
     DEF PlanNext, Tick, SweepOpen, SweepAbort, CountRead, CountWrite, CancelStop

\* Nobody is billed after leaving.
THEOREM NobodyBilledAfterLeaving == PlanSpec => LeaversLeftAlone
<1> DEFINE Spared ==
      \A m \in Members \ stale' :
        row[m].status # "none" /\ (row[m].status # "active" \/ row[m].atEnd) =>
          row'[m].billed = row[m].billed \/ (row[m].status # "active" /\ row'[m].status = "active")
<1>1. PlanInv /\ [PlanNext]_planVars => [Spared]_planVars
  BY StepSparesLeavers
<1>2. PlanSpec => [][Spared]_planVars
  BY <1>1, PlanInvariance, PTL DEF PlanSpec
<1> QED
  BY <1>2 DEF LeaversLeftAlone

----------------------------------------------------------------------------
(* The billing webhook.                                                  *)

StageNames == {"first", "retry", "final", "lapsed"}
Requests == [event : Events, pc : Steps, previous : {"none"} \cup StageNames]

BillingShape ==
  /\ what \in Scripts
  /\ claimed \subseteq Events /\ acked \subseteq claimed /\ done \subseteq claimed
  /\ handler \in [Handlers -> Requests \cup {Free}]
  /\ plan \in {"paid", "lapsed"}
  /\ subscription_status \in {"active", "past_due", "unpaid", "canceled"}
  /\ dunning \in [stage : {"none", "recovered"} \cup StageNames, open : BOOLEAN]
  /\ dunning.open => dunning.stage \in StageNames
  /\ credited \in BOOLEAN /\ disturbed \in BOOLEAN /\ silenced \in BOOLEAN
  /\ runs \in [Events -> Nat]
  /\ told \in Seq({"recovered"} \cup StageNames)

\* A request whose claim succeeded, and what the statement it has come to says of its event.
Working(h) == handler[h] # Free /\ handler[h].pc # "claim"

OneEach ==
  /\ \A e \in Events : runs[e] = IF e \in claimed THEN 1 ELSE 0
  /\ \A h \in Handlers : Working(h) => EventAt(h) \in claimed \ done
  /\ \A g, h \in Handlers : Working(g) /\ Working(h) /\ EventAt(g) = EventAt(h) => g = h

AtItsPlace ==
  \A h \in Handlers :
    /\ At(h, "read") \/ At(h, "write") \/ At(h, "tell") => KindAt(h) \in {"failed", "paid"}
    /\ At(h, "lapse") => ShouldLapse(EventAt(h))
    /\ At(h, "credit") => KindAt(h) = "updated"

\* The events that may still lead to a message.
Untold(h) == \E pc \in {"apply", "read", "write", "tell"} : At(h, pc)
Owing == {e \in Events : \E h \in Handlers : Untold(h) /\ EventAt(h) = e}
ToldAtMost == Len(told) <= Cardinality(claimed \ Owing)

ToldLapsed == \E i \in DOMAIN told : told[i] = "lapsed"
Warned == silenced \/ ToldLapsed
Warnings ==
  /\ WarnedBeforeLapsed
  /\ \A h \in Handlers :
       /\ At(h, "lapse") => Warned
       /\ At(h, "write") /\ KindAt(h) = "failed" /\ handler[h].previous = "lapsed" => Warned
  /\ dunning.open /\ dunning.stage = "lapsed" => Warned \/ \E h \in Handlers : Unsaid(h)

\* What Stripe's word up to the events S comes to.
StatusBy(S) == LastOf(S, "active", StatusAfter)
PlanBy(S) == LastOf({e \in S : what[e].kind \notin {"failed", "paid"} \/ ShouldLapse(e)},
                    "paid", PlanAfter)
OpenBy(S) == LastOf({e \in S : what[e].kind \in {"failed", "paid"}}, FALSE, FailedAt)
CreditedBy(S) == \E e \in S : what[e].kind = "updated"

Follows(S) ==
  /\ subscription_status = StatusBy(S) /\ plan = PlanBy(S)
  /\ dunning.open = OpenBy(S) /\ credited = CreditedBy(S)

InOrder ==
  ~disturbed => \E k \in 0..NumEvents : claimed = 1..k /\ done \in {1..k, 1..(k - 1)}

Reached(h) ==
  LET e == EventAt(h)
      pc == handler[h].pc
  IN  /\ subscription_status = CASE pc = "apply"  -> StatusBy(done)
                                 [] pc = "finish" -> StatusAfter(e)
                                 [] OTHER         -> StatusFrom(what[e].kind)
      /\ plan = IF pc \in {"credit", "finish"} THEN PlanBy(claimed) ELSE PlanBy(done)
      /\ dunning.open = IF pc \in {"tell", "lapse", "finish"} THEN OpenBy(claimed)
                                                            ELSE OpenBy(done)
      /\ credited = IF pc = "finish" THEN CreditedBy(claimed) ELSE CreditedBy(done)

Following ==
  /\ InOrder
  /\ ~disturbed /\ claimed = done => Follows(done)
  /\ \A h \in Handlers : ~disturbed /\ Working(h) => Reached(h)

BillingInv == BillingShape /\ OneEach /\ AtItsPlace /\ ToldAtMost /\ Warnings /\ Following

----------------------------------------------------------------------------

LEMMA EventFacts ==
  /\ NumEvents \in Nat /\ Events = 1..NumEvents /\ IsFiniteSet(Events)
  /\ Free \notin Requests
<1>1. NumEvents \in Nat
  BY EventsAssumption
<1>2. IsFiniteSet(1..NumEvents)
  BY <1>1, FS_Interval
<1>3. \A r \in Requests : r.event \in 1..NumEvents
  BY DEF Requests, Events
<1>4. Free.event = 0
  BY DEF Free
<1> QED
  BY <1>1, <1>2, <1>3, <1>4 DEF Events

LEMMA SaidFacts ==
  ASSUME BillingShape, NEW e \in Events
  PROVE  /\ what[e].kind \in EventKinds
         /\ StatusFrom(what[e].kind) \in {"active", "past_due", "canceled"}
         /\ StageOf(e) \in StageNames
         /\ AfterTell(e) \in {"lapse", "finish"}
<1>1. what \in [Events -> [kind : EventKinds, attempt : Nat, last : BOOLEAN]]
  BY EventsAssumption DEF BillingShape
<1>2. what[e].kind \in EventKinds
  BY <1>1
<1> QED
  BY <1>2 DEF StageOf, StageFor, StageNames, StatusFrom, AfterTell, EventKinds

LEMMA RequestAt ==
  ASSUME BillingShape, NEW h \in Handlers, handler[h] # Free
  PROVE  /\ handler[h] \in Requests /\ EventAt(h) \in Events /\ KindAt(h) \in EventKinds
         /\ handler[h].pc \in Steps
<1>1. handler[h] \in Requests
  BY DEF BillingShape
<1>2. EventAt(h) \in Events /\ handler[h].pc \in Steps
  BY <1>1 DEF EventAt, Requests
<1> QED
  BY <1>1, <1>2, SaidFacts DEF KindAt

LEMMA GoingOn ==
  ASSUME BillingShape, NEW h \in Handlers, handler[h] # Free, NEW pc \in Steps, Goto(h, pc)
  PROVE  /\ handler' \in [Handlers -> Requests \cup {Free}]
         /\ handler'[h] \in Requests /\ handler'[h] # Free
         /\ handler'[h].event = handler[h].event /\ handler'[h].previous = handler[h].previous
         /\ handler'[h].pc = pc
         /\ \A g \in Handlers \ {h} : handler'[g] = handler[g]
<1>1. handler \in [Handlers -> Requests \cup {Free}] /\ handler[h] \in Requests
  BY RequestAt DEF BillingShape
<1>2. handler'[h] = [handler[h] EXCEPT !.pc = pc]
  BY <1>1 DEF Goto
<1>3. handler'[h] \in Requests /\ handler'[h].event = handler[h].event
      /\ handler'[h].previous = handler[h].previous /\ handler'[h].pc = pc
  BY <1>1, <1>2 DEF Requests
<1> QED
  BY <1>1, <1>3, EventFacts DEF Goto

LEMMA Stopping ==
  ASSUME BillingShape, NEW h \in Handlers, Stop(h)
  PROVE  /\ handler' \in [Handlers -> Requests \cup {Free}]
         /\ handler'[h] = Free
         /\ \A g \in Handlers \ {h} : handler'[g] = handler[g]
BY DEF BillingShape, Stop

\* What the statements of handleEvent have in common: one request goes on to another
\* statement, about the same event.
Goes(h) ==
  /\ Working(h) /\ handler'[h] \in Requests /\ handler'[h] # Free
  /\ handler'[h].event = handler[h].event /\ handler'[h].pc # "claim"
  /\ UNCHANGED <<claimed, acked, done, runs>>

Opens(h) ==
  /\ handler[h] = Free /\ handler'[h] \in Requests /\ handler'[h].pc = "claim"
  /\ UNCHANGED <<claimed, acked, business, told, runs, done, disturbed, silenced>>

Leaves(h) ==
  /\ handler[h] # Free /\ handler'[h] = Free
  /\ acked \subseteq acked' /\ acked' \subseteq acked \cup (claimed \cap {EventAt(h)})
  /\ UNCHANGED <<claimed, business, told, runs, done, disturbed>>

StepOf(h) ==
  \/ Opens(h) \/ Goes(h) \/ Leaves(h)
  \/ ClaimEvent(h) /\ handler'[h] \in Requests /\ handler'[h].pc = "apply"
                   /\ handler'[h].event = handler[h].event
  \/ Answer(h) /\ handler'[h] = Free

LEMMA WhoSteps ==
  ASSUME BillingShape, NEW h \in Handlers,
         \/ \E e \in Events : Receive(h, e)
         \/ Work(h) \/ Unavailable(h) \/ Throw(h) \/ Crash(h)
  PROVE  /\ StepOf(h) /\ what' = what
         /\ handler' \in [Handlers -> Requests \cup {Free}]
         /\ \A g \in Handlers \ {h} : handler'[g] = handler[g]
<1> USE DEF StepOf
<1>1. ASSUME NEW e \in Events, Receive(h, e) PROVE Opens(h) /\ what' = what
        /\ handler' \in [Handlers -> Requests \cup {Free}]
        /\ \A g \in Handlers \ {h} : handler'[g] = handler[g]
  <2>1. [event |-> e, pc |-> "claim", previous |-> "none"] \in Requests
    BY DEF Requests, Steps
  <2> QED
    BY <1>1, <2>1 DEF Receive, Opens, BillingShape
<1>2. CASE ClaimEvent(h)
  <2>1. handler[h] # Free /\ Goto(h, "apply") /\ "apply" \in Steps
    BY <1>2 DEF ClaimEvent, At, Steps
  <2> QED
    BY <1>2, <2>1, GoingOn DEF ClaimEvent
<1>3. CASE Duplicate(h)
  <2>1. EventAt(h) \in claimed
    BY <1>3 DEF Duplicate, ClaimSucceeds
  <2> QED
    BY <1>3, <2>1, Stopping DEF Duplicate, At, Leaves
<1>4. CASE Unavailable(h)
  BY <1>4, Stopping DEF Unavailable, At, Leaves
<1>5. CASE Throw(h)
  BY <1>5, Stopping DEF Throw, At, Leaves
<1>6. CASE Crash(h)
  BY <1>6, Stopping DEF Crash, Leaves
<1>7. CASE Answer(h)
  BY <1>7, Stopping DEF Answer
<1>8. ASSUME NEW x \in Steps \ {"claim"}, NEW pc \in Steps \ {"claim"}, At(h, x), Goto(h, pc),
             UNCHANGED <<what, claimed, acked, runs, done>>
      PROVE  StepOf(h) /\ what' = what /\ handler' \in [Handlers -> Requests \cup {Free}]
             /\ \A g \in Handlers \ {h} : handler'[g] = handler[g]
  <2>1. handler[h] # Free /\ Working(h)
    BY <1>8 DEF At, Working
  <2>2. /\ handler' \in [Handlers -> Requests \cup {Free}]
        /\ handler'[h] \in Requests /\ handler'[h] # Free
        /\ handler'[h].event = handler[h].event
        /\ handler'[h].pc = pc
        /\ \A g \in Handlers \ {h} : handler'[g] = handler[g]
    BY <1>8, <2>1, GoingOn
  <2> QED
    BY <1>8, <2>1, <2>2 DEF Goes
<1>9. ASSUME NEW x, At(h, x) PROVE EventAt(h) \in Events /\ KindAt(h) \in EventKinds
                                  /\ AfterTell(EventAt(h)) \in {"lapse", "finish"}
  BY <1>9, RequestAt, SaidFacts DEF At
<1>10. CASE Apply(h)
  <2>1. AfterApply(KindAt(h)) \in {"read", "credit", "finish"}
    BY <1>9, <1>10 DEF Apply, AfterApply, EventKinds
  <2> QED
    BY <1>8, <1>10, <2>1 DEF Apply, Steps
<1>11. CASE ReadDunning(h)
  <2>1. PICK fails \in Losses :
          /\ At(h, "read")
          /\ handler' = [handler EXCEPT
               ![h].previous = IF dunning.open /\ ~fails THEN dunning.stage ELSE "none",
               ![h].pc = IF KindAt(h) = "failed" \/ (dunning.open /\ ~fails) THEN "write"
                                                                            ELSE "finish"]
          /\ UNCHANGED <<what, claimed, acked, business, told, runs, done>>
    BY <1>11 DEF ReadDunning
  <2>2. PICK p \in {"none"} \cup StageNames, x \in {"write", "finish"} :
          handler' = [handler EXCEPT ![h].previous = p, ![h].pc = x]
    BY <2>1 DEF BillingShape
  <2>3. handler[h] # Free /\ Working(h)
    BY <2>1 DEF At, Working
  <2>4. handler \in [Handlers -> Requests \cup {Free}] /\ handler[h] \in Requests
    BY <2>3, RequestAt DEF BillingShape
  <2>5. handler'[h] = [[handler[h] EXCEPT !.previous = p] EXCEPT !.pc = x]
    BY <2>2, <2>4
  <2>6. [handler[h] EXCEPT !.previous = p] \in Requests
        /\ [handler[h] EXCEPT !.previous = p].event = handler[h].event
    BY <2>4 DEF Requests
  <2>7. handler'[h] \in Requests /\ handler'[h].event = handler[h].event /\ handler'[h].pc = x
    BY <2>5, <2>6 DEF Requests, Steps
  <2>8. handler' \in [Handlers -> Requests \cup {Free}]
        /\ \A g \in Handlers \ {h} : handler'[g] = handler[g]
    BY <2>2, <2>4, <2>7
  <2> QED
    BY <2>1, <2>3, <2>7, <2>8, EventFacts DEF Goes
<1>12. CASE WriteDunning(h)
  <2>1. AfterWrite(h) \in {"tell", "lapse", "finish"}
    BY <1>9, <1>12 DEF WriteDunning, AfterWrite
  <2> QED
    BY <1>8, <1>12, <2>1 DEF WriteDunning, Steps
<1>13. CASE Tell(h)
  BY <1>8, <1>9, <1>13 DEF Tell, Steps
<1>14. CASE Lapse(h)
  BY <1>8, <1>14 DEF Lapse, Steps
<1>15. CASE Credit(h)
  BY <1>8, <1>15 DEF Credit, Steps
<1> QED
  BY <1>1, <1>2, <1>3, <1>4, <1>5, <1>6, <1>7, <1>10, <1>11, <1>12, <1>13, <1>14, <1>15 DEF Work

\* The steps of one request, and what they leave alone.
Step(h) ==
  \/ \E e \in Events : Receive(h, e)
  \/ Work(h) \/ Unavailable(h) \/ Throw(h) \/ Crash(h)

LEMMA ValuesKeep ==
  ASSUME BillingShape, NEW h \in Handlers, Step(h)
  PROVE  /\ plan' \in {"paid", "lapsed"}
         /\ subscription_status' \in {"active", "past_due", "unpaid", "canceled"}
         /\ dunning' \in [stage : {"none", "recovered"} \cup StageNames, open : BOOLEAN]
         /\ dunning'.open => dunning'.stage \in StageNames
         /\ credited' \in BOOLEAN /\ disturbed' \in BOOLEAN /\ silenced' \in BOOLEAN
         /\ told' \in Seq({"recovered"} \cup StageNames)
<1> DEFINE Money == <<plan, subscription_status, credited>>
           Marks == <<disturbed, silenced>>
<1>0. ASSUME NEW x, At(h, x)
      PROVE  /\ EventAt(h) \in Events /\ StageOf(EventAt(h)) \in StageNames
             /\ StatusFrom(KindAt(h)) \in {"active", "past_due", "canceled"}
  BY <1>0, RequestAt, SaidFacts DEF At, KindAt
<1>1. CASE UNCHANGED <<business, told>> /\ disturbed' \in BOOLEAN /\ silenced' \in BOOLEAN
  BY <1>1 DEF business, BillingShape
<1>2. CASE Apply(h)
  BY <1>0, <1>2 DEF Apply, BillingShape
<1>3. CASE WriteDunning(h)
  <2>1. PICK fails \in Losses :
          /\ At(h, "write")
          /\ dunning' = IF fails THEN dunning ELSE RowAfter(KindAt(h), EventAt(h))
          /\ disturbed' = (disturbed \/ fails)
          /\ UNCHANGED <<plan, subscription_status, credited, told, silenced>>
    BY <1>3 DEF WriteDunning
  <2>2. fails \in BOOLEAN
    BY EventsAssumption
  <2>3. StageOf(EventAt(h)) \in StageNames
    BY <1>0, <2>1
  <2>4. LET after == RowAfter(KindAt(h), EventAt(h))
        IN  /\ after \in [stage : {"none", "recovered"} \cup StageNames, open : BOOLEAN]
            /\ after.open => after.stage \in StageNames
    BY <2>3 DEF RowAfter
  <2> QED
    BY <2>1, <2>2, <2>4 DEF BillingShape
<1>4. CASE Tell(h)
  <2>1. /\ At(h, "tell") /\ UNCHANGED <<business, disturbed, silenced>>
        /\ told' = Append(told, IF KindAt(h) = "paid" THEN "recovered" ELSE StageOf(EventAt(h)))
    BY <1>4 DEF Tell
  <2>2. (IF KindAt(h) = "paid" THEN "recovered" ELSE StageOf(EventAt(h)))
          \in {"recovered"} \cup StageNames
    BY <1>0, <2>1
  <2> QED
    BY <2>1, <2>2 DEF BillingShape, business
<1>5. CASE Lapse(h)
  BY <1>5 DEF Lapse, BillingShape
<1>6. CASE Credit(h)
  <2>1. PICK fails \in Losses :
          /\ credited' = (credited \/ ~fails) /\ disturbed' = (disturbed \/ fails)
          /\ UNCHANGED <<plan, subscription_status, dunning, told, silenced>>
    BY <1>6 DEF Credit
  <2>2. fails \in BOOLEAN
    BY EventsAssumption
  <2> QED
    BY <2>1, <2>2 DEF BillingShape
<1>7. CASE ReadDunning(h)
  <2>1. PICK fails \in Losses :
          /\ UNCHANGED <<business, told>> /\ disturbed' = (disturbed \/ fails)
          /\ silenced' \in BOOLEAN
    BY <1>7 DEF ReadDunning, BillingShape
  <2>2. fails \in BOOLEAN
    BY EventsAssumption
  <2> QED
    BY <1>1, <2>1, <2>2 DEF BillingShape
<1>8. CASE (\E e \in Events : Receive(h, e)) \/ Duplicate(h) \/ Unavailable(h) \/ Throw(h)
           \/ Answer(h)
  BY <1>1, <1>8 DEF BillingShape, Receive, Duplicate, Unavailable, Throw, Answer
<1>9. CASE ClaimEvent(h)
  BY <1>1, <1>9 DEF BillingShape, ClaimEvent
<1>10. CASE Crash(h)
  BY <1>1, <1>10 DEF BillingShape, Crash
<1> QED
  BY <1>2, <1>3, <1>4, <1>5, <1>6, <1>7, <1>8, <1>9, <1>10 DEF Step, Work

LEMMA BillingShapeKeeps ==
  ASSUME BillingShape, OneEach, NEW h \in Handlers, Step(h)
  PROVE  BillingShape'
<1>1. StepOf(h) /\ what' = what /\ handler' \in [Handlers -> Requests \cup {Free}]
  BY WhoSteps DEF Step
<1>2. what' \in Scripts
  BY <1>1 DEF BillingShape
<1>3. handler[h] # Free => EventAt(h) \in Events
  BY RequestAt
<1>4. /\ claimed' \subseteq Events /\ acked' \subseteq claimed' /\ done' \subseteq claimed'
      /\ runs' \in [Events -> Nat]
  <2>1. CASE Opens(h) \/ Goes(h) \/ Leaves(h)
    BY <2>1 DEF BillingShape, Opens, Goes, Leaves
  <2>2. CASE ClaimEvent(h)
    <3>1. handler[h] # Free /\ claimed' = claimed \cup {EventAt(h)} /\ UNCHANGED <<acked, done>>
          /\ runs' = [runs EXCEPT ![EventAt(h)] = @ + 1]
      BY <2>2 DEF ClaimEvent, At
    <3> QED
      BY <1>3, <3>1 DEF BillingShape
  <2>3. CASE Answer(h)
    <3>1. Working(h)
      BY <2>3 DEF Answer, At, Working
    <3> QED
      BY <2>3, <3>1 DEF Answer, BillingShape, OneEach
  <2> QED
    BY <1>1, <2>1, <2>2, <2>3 DEF StepOf
<1> QED
  BY <1>1, <1>2, <1>4, ValuesKeep DEF BillingShape

LEMMA OneEachKeeps ==
  ASSUME BillingShape, OneEach, NEW h \in Handlers, Step(h)
  PROVE  OneEach'
<1>1. /\ StepOf(h) /\ what' = what
      /\ \A g \in Handlers \ {h} : handler'[g] = handler[g]
  BY WhoSteps DEF Step
<1>2. \A g \in Handlers \ {h} : Working(g)' = Working(g) /\ EventAt(g)' = EventAt(g)
  BY <1>1 DEF Working, EventAt
<1>3. CASE Opens(h) \/ Leaves(h)
  <2>1. ~Working(h)' /\ UNCHANGED <<claimed, runs, done>>
    BY <1>3 DEF Opens, Leaves, Working
  <2> QED
    BY <1>2, <2>1 DEF OneEach
<1>4. CASE Goes(h)
  <2>1. Working(h) /\ EventAt(h)' = EventAt(h) /\ UNCHANGED <<claimed, runs, done>>
    BY <1>4 DEF Goes, EventAt
  <2>2. \A g \in Handlers : (Working(g)' => Working(g)) /\ EventAt(g)' = EventAt(g)
    BY <1>2, <2>1
  <2> QED
    BY <2>1, <2>2 DEF OneEach
<1>5. CASE ClaimEvent(h) /\ handler'[h].event = handler[h].event
  <2>1. PICK e \in Events : e = EventAt(h)
    BY <1>5, RequestAt DEF ClaimEvent, At
  <2>2. /\ e \notin claimed /\ claimed' = claimed \cup {e} /\ done' = done
        /\ runs' = [runs EXCEPT ![e] = @ + 1] /\ EventAt(h)' = e
    BY <1>5, <2>1 DEF ClaimEvent, ClaimSucceeds, EventAt
  <2>3. \A d \in Events : runs'[d] = IF d \in claimed' THEN 1 ELSE 0
    BY <2>1, <2>2 DEF OneEach, BillingShape
  <2>4. e \notin done
    BY <2>2 DEF BillingShape
  <2>5. \A g \in Handlers \ {h} : Working(g)' => EventAt(g)' # e /\ EventAt(g)' \in claimed' \ done'
    BY <1>2, <2>2 DEF OneEach
  <2> QED
    BY <1>2, <2>2, <2>3, <2>4, <2>5 DEF OneEach
<1>6. CASE Answer(h) /\ handler'[h] = Free
  <2>1. Working(h) /\ ~Working(h)' /\ claimed' = claimed /\ runs' = runs
        /\ done' = done \cup {EventAt(h)}
    BY <1>6 DEF Answer, At, Working
  <2>2. \A g \in Handlers : Working(g)' => g # h /\ Working(g) /\ EventAt(g) # EventAt(h)
    BY <1>2, <2>1 DEF OneEach
  <2> QED
    BY <1>2, <2>1, <2>2 DEF OneEach
<1> QED
  BY <1>1, <1>3, <1>4, <1>5, <1>6 DEF StepOf

\* Where a statement takes its request.
LEMMA NextPlace ==
  ASSUME BillingShape, NEW h \in Handlers, NEW x, At(h, x), NEW pc, Goto(h, pc)
  PROVE  handler'[h] # Free /\ handler'[h].pc = pc /\ handler'[h].previous = handler[h].previous
         /\ EventAt(h)' = EventAt(h)
<1>1. handler[h] \in Requests /\ handler \in [Handlers -> Requests \cup {Free}]
  BY RequestAt DEF At, BillingShape
<1>2. handler'[h] = [handler[h] EXCEPT !.pc = pc]
  BY <1>1 DEF Goto
<1>3. handler'[h].event = handler[h].event /\ handler'[h].pc = pc
      /\ handler'[h].previous = handler[h].previous
  BY <1>1, <1>2 DEF Requests
<1>4. handler[h].event # 0
  BY <1>1, EventFacts DEF Requests
<1> QED
  BY <1>3, <1>4 DEF EventAt, Free

LEMMA NextRead ==
  ASSUME BillingShape, NEW h \in Handlers, ReadDunning(h)
  PROVE  \E fails \in BOOLEAN :
           /\ handler'[h] # Free /\ EventAt(h)' = EventAt(h)
           /\ handler'[h].previous = IF dunning.open /\ ~fails THEN dunning.stage ELSE "none"
           /\ handler'[h].pc = IF KindAt(h) = "failed" \/ (dunning.open /\ ~fails) THEN "write"
                                                                                ELSE "finish"
           /\ disturbed' = (disturbed \/ fails)
<1>1. PICK fails \in Losses :
        /\ At(h, "read")
        /\ handler' = [handler EXCEPT
             ![h].previous = IF dunning.open /\ ~fails THEN dunning.stage ELSE "none",
             ![h].pc = IF KindAt(h) = "failed" \/ (dunning.open /\ ~fails) THEN "write"
                                                                          ELSE "finish"]
        /\ disturbed' = (disturbed \/ fails)
  BY DEF ReadDunning
<1>2. PICK p : p = IF dunning.open /\ ~fails THEN dunning.stage ELSE "none"
  OBVIOUS
<1>3. PICK x : x = IF KindAt(h) = "failed" \/ (dunning.open /\ ~fails) THEN "write" ELSE "finish"
  OBVIOUS
<1>4. handler[h] \in Requests /\ handler \in [Handlers -> Requests \cup {Free}]
  BY <1>1, RequestAt DEF At, BillingShape
<1>5. handler' = [handler EXCEPT ![h].previous = p, ![h].pc = x]
  BY <1>1, <1>2, <1>3
<1>6. handler'[h] = [[handler[h] EXCEPT !.previous = p] EXCEPT !.pc = x]
  BY <1>4, <1>5
<1>7. handler'[h].previous = p /\ handler'[h].pc = x /\ handler'[h].event = handler[h].event
  BY <1>4, <1>6 DEF Requests
<1>8. handler[h].event # 0
  BY <1>4, EventFacts DEF Requests
<1>9. handler'[h] # Free /\ EventAt(h)' = EventAt(h)
  BY <1>7, <1>8 DEF EventAt, Free
<1> QED
  BY <1>1, <1>2, <1>3, <1>7, <1>9, EventsAssumption

LEMMA PlaceKeeps ==
  ASSUME BillingShape, AtItsPlace, NEW h \in Handlers, Step(h)
  PROVE  AtItsPlace'
<1>1. StepOf(h) /\ what' = what /\ \A g \in Handlers \ {h} : handler'[g] = handler[g]
  BY WhoSteps DEF Step
<1> DEFINE Placed(g) ==
      /\ At(g, "read") \/ At(g, "write") \/ At(g, "tell") => KindAt(g) \in {"failed", "paid"}
      /\ At(g, "lapse") => ShouldLapse(EventAt(g))
      /\ At(g, "credit") => KindAt(g) = "updated"
<1>2. \A g \in Handlers \ {h} : Placed(g)'
  <2>1. \A g \in Handlers \ {h} : /\ KindAt(g)' = KindAt(g)
                                  /\ ShouldLapse(EventAt(g))' = ShouldLapse(EventAt(g))
                                  /\ \A pc : At(g, pc)' = At(g, pc)
    BY <1>1 DEF KindAt, EventAt, At, ShouldLapse, StageOf
  <2> QED
    BY <2>1 DEF AtItsPlace
<1> SUFFICES Placed(h)'
  BY <1>2 DEF AtItsPlace
<1>3. ASSUME handler'[h] = Free \/ handler'[h].pc \in {"claim", "apply", "finish"}
      PROVE  Placed(h)'
  BY <1>3 DEF At
<1>4. ASSUME NEW x, At(h, x), EventAt(h)' = EventAt(h)
      PROVE  /\ KindAt(h)' = KindAt(h) /\ KindAt(h) \in EventKinds
             /\ ShouldLapse(EventAt(h))' = ShouldLapse(EventAt(h))
  BY <1>1, <1>4, RequestAt DEF At, KindAt, ShouldLapse, StageOf
<1>5. CASE Apply(h)
  <2>1. At(h, "apply") /\ handler'[h].pc = AfterApply(KindAt(h)) /\ EventAt(h)' = EventAt(h)
    BY <1>5, NextPlace DEF Apply
  <2> QED
    BY <1>4, <2>1 DEF AfterApply, At, EventKinds
<1>6. CASE ReadDunning(h)
  <2>1. At(h, "read") /\ handler'[h].pc \in {"write", "finish"} /\ EventAt(h)' = EventAt(h)
    BY <1>6, NextRead DEF ReadDunning
  <2> QED
    BY <1>4, <2>1 DEF At, AtItsPlace
<1>7. CASE WriteDunning(h)
  <2>1. At(h, "write") /\ handler'[h].pc = AfterWrite(h) /\ EventAt(h)' = EventAt(h)
    BY <1>7, NextPlace DEF WriteDunning
  <2>2. handler'[h].pc \in {"tell", "lapse", "finish"}
        /\ (handler'[h].pc = "lapse" => ShouldLapse(EventAt(h)))
    BY <2>1 DEF AfterWrite, AfterTell
  <2> QED
    BY <1>4, <2>1, <2>2 DEF At, AtItsPlace
<1>8. CASE Tell(h)
  <2>1. At(h, "tell") /\ handler'[h].pc = AfterTell(EventAt(h)) /\ EventAt(h)' = EventAt(h)
    BY <1>8, NextPlace DEF Tell
  <2> QED
    BY <1>4, <2>1 DEF AfterTell, At
<1>9. CASE Lapse(h) \/ Credit(h)
  <2>1. handler'[h].pc = "finish"
    BY <1>9, NextPlace DEF Lapse, Credit
  <2> QED
    BY <1>3, <2>1
<1>10. CASE ClaimEvent(h)
  <2>1. handler'[h].pc = "apply"
    BY <1>10, NextPlace DEF ClaimEvent
  <2> QED
    BY <1>3, <2>1
<1>11. CASE Duplicate(h) \/ Unavailable(h) \/ Throw(h) \/ Crash(h) \/ Answer(h)
  <2>1. handler'[h] = Free
    BY <1>11, Stopping DEF Duplicate, Unavailable, Throw, Crash, Answer
  <2> QED
    BY <1>3, <2>1
<1>12. CASE \E e \in Events : Receive(h, e)
  <2>1. PICK e \in Events : Receive(h, e)
    BY <1>12
  <2>2. handler'[h].pc = "claim"
    BY <2>1 DEF Receive, BillingShape
  <2> QED
    BY <1>3, <2>2
<1> QED
  BY <1>5, <1>6, <1>7, <1>8, <1>9, <1>10, <1>11, <1>12 DEF Step, Work

----------------------------------------------------------------------------
(* As many messages as events, at the most.                                *)

LEMMA CountKeeps ==
  ASSUME BillingShape, OneEach, AtItsPlace, ToldAtMost, NEW h \in Handlers, Step(h)
  PROVE  ToldAtMost'
<1> DEFINE Settled == claimed \ Owing
<1>1. StepOf(h) /\ what' = what /\ \A g \in Handlers \ {h} : handler'[g] = handler[g]
  BY WhoSteps DEF Step
<1>2. Settled \subseteq Events /\ IsFiniteSet(Settled)
  <2>1. Settled \subseteq Events /\ IsFiniteSet(Events)
    BY EventFacts DEF BillingShape
  <2> QED
    BY <2>1, FS_Subset
<1>3. \A g \in Handlers \ {h} : Untold(g)' = Untold(g) /\ EventAt(g)' = EventAt(g)
  BY <1>1 DEF Untold, At, EventAt
<1>4. PICK S : S = Settled'
  OBVIOUS
<1>5. BillingShape'
  BY BillingShapeKeeps
<1>6. IsFiniteSet(S) /\ Cardinality(S) \in Nat /\ Cardinality(Settled) \in Nat
  <2>1. S \subseteq Events /\ IsFiniteSet(Events)
    BY <1>4, <1>5, EventFacts DEF BillingShape, Events
  <2>2. IsFiniteSet(S)
    BY <2>1, FS_Subset
  <2> QED
    BY <1>2, <2>2, FS_CardinalityType
<1>7. ASSUME Settled \subseteq S PROVE Cardinality(Settled) <= Cardinality(S)
  BY <1>6, <1>7, FS_Subset
<1>8. ASSUME Working(h), ~Untold(h) PROVE ~Untold(h)'
  <2>1. handler[h].pc \in {"lapse", "credit", "finish"} /\ handler[h] # Free
    BY <1>8, RequestAt DEF Untold, At, Working, Steps
  <2>2. CASE Lapse(h) \/ Credit(h)
    <3>1. handler'[h].pc = "finish"
      BY <2>2, NextPlace DEF Lapse, Credit
    <3> QED
      BY <3>1 DEF Untold, At
  <2>3. CASE Throw(h) \/ Crash(h) \/ Answer(h)
    <3>1. handler'[h] = Free
      BY <2>3, Stopping DEF Throw, Crash, Answer
    <3> QED
      BY <3>1 DEF Untold, At
  <2> QED
    BY <2>1, <2>2, <2>3 DEF Step, Work, Receive, ClaimEvent, Duplicate, Unavailable, Apply,
       ReadDunning, WriteDunning, Tell, At
<1>9. ASSUME ~Tell(h) PROVE told' = told /\ Settled \subseteq S
  <2>1. told' = told
    BY <1>9 DEF Step, Work, Receive, ClaimEvent, Duplicate, Unavailable, Apply, ReadDunning,
                WriteDunning, Lapse, Credit, Answer, Throw, Crash
  <2>2. ASSUME NEW e \in claimed, e \notin Owing PROVE e \in S
    <3>1. e \in claimed' /\ e \in Events
      BY <2>2, <1>1 DEF StepOf, Opens, Goes, Leaves, ClaimEvent, Answer, BillingShape
    <3>2. ASSUME Untold(h)', EventAt(h)' = e PROVE FALSE
      <4>1. handler'[h] # Free /\ handler'[h].pc \in {"apply", "read", "write", "tell"}
        BY <3>2 DEF Untold, At
      <4>2. CASE Goes(h)
        <5>1. Untold(h)
          BY <1>8, <3>2, <4>2 DEF Goes
        <5> QED
          BY <2>2, <3>1, <3>2, <4>2, <5>1 DEF Goes, EventAt, Owing
      <4>3. CASE ClaimEvent(h) /\ handler'[h].event = handler[h].event
        BY <2>2, <3>2, <4>3 DEF ClaimEvent, ClaimSucceeds, EventAt
      <4> QED
        BY <1>1, <4>1, <4>2, <4>3 DEF StepOf, Opens, Leaves
    <3>3. \A g \in Handlers : ~(Untold(g)' /\ EventAt(g)' = e)
      BY <1>3, <2>2, <3>1, <3>2 DEF Owing
    <3>4. e \notin Owing'
      BY <3>3 DEF Owing
    <3> QED
      BY <1>4, <3>1, <3>4
  <2> QED
    BY <2>1, <2>2
<1>10. CASE Tell(h)
  <2>1. At(h, "tell") /\ Len(told') = Len(told) + 1 /\ Goto(h, AfterTell(EventAt(h)))
        /\ claimed' = claimed
    BY <1>10 DEF Tell, BillingShape
  <2>2. PICK e \in claimed : e = EventAt(h) /\ Working(h) /\ Untold(h)
    BY <2>1 DEF OneEach, Working, At, Untold
  <2>3. e \in Events /\ e \in Owing
    BY <2>2 DEF Owing, BillingShape
  <2>4. handler'[h].pc \in {"lapse", "finish"}
    BY <2>1, NextPlace DEF AfterTell
  <2>5. \A g \in Handlers : Untold(g)' => g # h /\ Untold(g) /\ EventAt(g)' = EventAt(g)
    BY <1>3, <2>4 DEF Untold, At
  <2>6. \A g \in Handlers \ {h} : Untold(g) => EventAt(g) # e
    BY <2>2 DEF OneEach, Untold, Working, At
  <2>7. Owing' \subseteq Owing /\ e \notin Owing'
    BY <2>5, <2>6 DEF Owing, Events
  <2>8. e \in S /\ Settled \subseteq S \ {e}
    BY <1>4, <2>1, <2>3, <2>7
  <2>9. Cardinality(S \ {e}) = Cardinality(S) - 1 /\ IsFiniteSet(S \ {e})
    BY <1>6, <2>8, FS_RemoveElement
  <2>10. Cardinality(Settled) <= Cardinality(S \ {e})
    BY <2>8, <2>9, FS_Subset
  <2>11. Len(told) \in Nat
    BY DEF BillingShape
  <2> QED
    BY <1>4, <1>6, <2>1, <2>9, <2>10, <2>11 DEF ToldAtMost
<1>11. CASE ~Tell(h)
  <2>1. told' = told /\ Settled \subseteq S
    BY <1>9, <1>11
  <2>2. Len(told) \in Nat
    BY DEF BillingShape
  <2> QED
    BY <1>4, <1>6, <1>7, <2>1, <2>2 DEF ToldAtMost
<1> QED
  BY <1>10, <1>11

----------------------------------------------------------------------------
(* The warning before the lapse.                                           *)

LEMMA LastRank ==
  /\ Rank("lapsed") = 4
  /\ \A stage \in {"none"} \cup StageNames : ~(4 > Rank(stage)) => stage = "lapsed"
<1>1. /\ Stages[1] = "first" /\ Stages[2] = "retry" /\ Stages[3] = "final"
      /\ Stages[4] = "lapsed"
  BY DEF Stages
<1>2. \A i \in 1..4 : i = 1 \/ i = 2 \/ i = 3 \/ i = 4
  OBVIOUS
<1>3. ASSUME NEW stage \in StageNames, NEW n \in 1..4, Stages[n] = stage PROVE Rank(stage) = n
  <2>1. \A i \in 1..4 : Stages[i] = stage => i = n
    BY <1>1, <1>2, <1>3 DEF StageNames
  <2>2. stage # "none"
    BY DEF StageNames
  <2> QED
    BY <1>3, <2>1, <2>2 DEF Rank
<1>4. Rank("first") = 1 /\ Rank("retry") = 2 /\ Rank("final") = 3 /\ Rank("lapsed") = 4
  BY <1>1, <1>3 DEF StageNames
<1>5. Rank("none") = 0
  BY DEF Rank
<1> QED
  BY <1>4, <1>5 DEF StageNames

\* A decline that does not write to the merchant at the last stage has found it on record.
LEMMA LapsesUnsaid ==
  ASSUME BillingShape, NEW h \in Handlers, At(h, "write"), ShouldLapse(EventAt(h)),
         ~ShouldNotify(h)
  PROVE  KindAt(h) = "failed" /\ handler[h].previous = "lapsed"
<1>1. KindAt(h) = "failed" /\ StageOf(EventAt(h)) = "lapsed"
  BY DEF ShouldLapse, KindAt
<1>2. ~(Rank("lapsed") > Rank(handler[h].previous))
  BY <1>1 DEF ShouldNotify
<1>3. handler[h].previous \in {"none"} \cup StageNames
  BY RequestAt DEF At, Requests
<1> QED
  BY <1>1, <1>2, <1>3, LastRank

LEMMA WarnedStays ==
  ASSUME BillingShape, NEW h \in Handlers, Step(h)
  PROVE  /\ Warned => Warned'
         /\ Tell(h) /\ ShouldLapse(EventAt(h)) => Warned'
<1>1. silenced => silenced'
  BY DEF Step, Work, Receive, ClaimEvent, Duplicate, Unavailable, Apply, ReadDunning,
         WriteDunning, Tell, Lapse, Credit, Answer, Throw, Crash
<1>2. CASE Tell(h)
  <2>1. PICK m : told' = Append(told, m) /\ (ShouldLapse(EventAt(h)) => m = "lapsed")
    BY <1>2 DEF Tell, ShouldLapse, KindAt
  <2>2. told \in Seq({"recovered"} \cup StageNames)
    BY DEF BillingShape
  <2>3. /\ \A i \in DOMAIN told : i \in DOMAIN told' /\ told'[i] = told[i]
        /\ Len(told) + 1 \in DOMAIN told' /\ told'[Len(told) + 1] = m
    <3>1. told' \in Seq({"recovered"} \cup StageNames \cup {m})
      BY <2>1, <2>2
    <3> QED
      BY <2>1, <2>2, <3>1
  <2> QED
    BY <1>1, <2>1, <2>3 DEF Warned, ToldLapsed
<1>3. CASE ~Tell(h)
  <2>1. told' = told
    BY <1>3 DEF Step, Work, Receive, ClaimEvent, Duplicate, Unavailable, Apply, ReadDunning,
         WriteDunning, Lapse, Credit, Answer, Throw, Crash
  <2> QED
    BY <1>1, <1>3, <2>1 DEF Warned, ToldLapsed
<1> QED
  BY <1>2, <1>3

LEMMA PausedWarned ==
  ASSUME BillingShape, Warnings, NEW h \in Handlers, Step(h)
  PROVE  WarnedBeforeLapsed'
<1> SUFFICES ASSUME subscription_status' = "unpaid" PROVE Warned'
  BY DEF WarnedBeforeLapsed, Warned, ToldLapsed
<1>1. CASE subscription_status = "unpaid"
  BY <1>1, WarnedStays DEF Warnings, WarnedBeforeLapsed, Warned, ToldLapsed
<1>2. CASE Lapse(h)
  BY <1>2, WarnedStays DEF Lapse, Warnings
<1>3. CASE Apply(h)
  <2>1. StatusFrom(KindAt(h)) \in {"active", "past_due", "canceled"}
    BY <1>3, RequestAt, SaidFacts DEF Apply, At, KindAt
  <2> QED
    BY <1>3, <2>1 DEF Apply
<1> QED
  BY <1>1, <1>2, <1>3 DEF Step, Work, Receive, ClaimEvent, Duplicate, Unavailable, ReadDunning,
     WriteDunning, Tell, Credit, Answer, Throw, Crash, business

LEMMA WarningsKeep ==
  ASSUME BillingShape, AtItsPlace, Warnings, NEW h \in Handlers, Step(h)
  PROVE  Warnings'
<1>1. StepOf(h) /\ what' = what /\ \A g \in Handlers \ {h} : handler'[g] = handler[g]
  BY WhoSteps DEF Step
<1>2. \A g \in Handlers \ {h} : /\ \A pc : At(g, pc)' = At(g, pc)
                                /\ KindAt(g)' = KindAt(g) /\ Unsaid(g)' = Unsaid(g)
                                /\ handler'[g].previous = handler[g].previous
  BY <1>1 DEF At, KindAt, EventAt, Unsaid, ShouldLapse, StageOf
<1>3. ASSUME At(h, "lapse")' PROVE Warned'
  <2>1. handler'[h] # Free /\ handler'[h].pc = "lapse"
    BY <1>3 DEF At
  <2>2. CASE WriteDunning(h)
    <3>1. At(h, "write") /\ AfterWrite(h) = "lapse"
      BY <2>1, <2>2, NextPlace DEF WriteDunning
    <3>2. ShouldLapse(EventAt(h)) /\ ~ShouldNotify(h)
      BY <3>1 DEF AfterWrite, AfterTell
    <3> QED
      BY <3>1, <3>2, LapsesUnsaid, WarnedStays DEF Warnings
  <2>3. CASE Tell(h)
    <3>1. AfterTell(EventAt(h)) = "lapse"
      BY <2>1, <2>3, NextPlace DEF Tell
    <3> QED
      BY <2>3, <3>1, WarnedStays DEF AfterTell
  <2>4. CASE Apply(h)
    <3>1. AfterApply(KindAt(h)) = "lapse" /\ KindAt(h) \in EventKinds
      BY <2>1, <2>4, NextPlace, RequestAt DEF Apply, At
    <3> QED
      BY <3>1 DEF AfterApply, EventKinds
  <2>5. CASE ReadDunning(h)
    BY <2>1, <2>5, NextRead
  <2>6. CASE Lapse(h) \/ Credit(h) \/ ClaimEvent(h)
    BY <2>1, <2>6, NextPlace DEF Lapse, Credit, ClaimEvent
  <2>7. CASE Duplicate(h) \/ Unavailable(h) \/ Throw(h) \/ Crash(h) \/ Answer(h)
    BY <2>1, <2>7, Stopping DEF Duplicate, Unavailable, Throw, Crash, Answer
  <2>8. CASE \E e \in Events : Receive(h, e)
    BY <2>1, <2>8 DEF Receive, BillingShape
  <2> QED
    BY <2>2, <2>3, <2>4, <2>5, <2>6, <2>7, <2>8 DEF Step, Work
<1>4. ASSUME At(h, "write")', KindAt(h)' = "failed", handler'[h].previous = "lapsed"
      PROVE  Warned'
  <2>1. handler'[h] # Free /\ handler'[h].pc = "write"
    BY <1>4 DEF At
  <2>2. CASE ReadDunning(h)
    <3>1. EventAt(h)' = EventAt(h) /\ dunning.open /\ dunning.stage = "lapsed"
      BY <1>4, <2>2, NextRead DEF BillingShape
    <3>2. KindAt(h) = "failed"
      BY <1>1, <1>4, <3>1 DEF KindAt
    <3>3. silenced' = (silenced \/ /\ KindAt(h) = "failed" /\ handler'[h].previous = "lapsed"
                                   /\ \E g \in Handlers : Unsaid(g))
      BY <2>2 DEF ReadDunning
    <3>4. (\E g \in Handlers : Unsaid(g)) => silenced'
      BY <1>4, <3>2, <3>3
    <3> QED
      BY <3>1, <3>4, WarnedStays DEF Warnings, Warned
  <2>3. CASE Apply(h) \/ WriteDunning(h) \/ Tell(h) \/ Lapse(h) \/ Credit(h) \/ ClaimEvent(h)
    <3>1. handler'[h].pc \in {AfterApply(KindAt(h)), AfterWrite(h), AfterTell(EventAt(h)),
                              "finish", "apply"}
      BY <2>3, NextPlace DEF Apply, WriteDunning, Tell, Lapse, Credit, ClaimEvent
    <3>2. AfterWrite(h) # "write" /\ AfterTell(EventAt(h)) # "write"
      BY DEF AfterWrite, AfterTell
    <3>3. KindAt(h) \in EventKinds
      BY <2>3, RequestAt DEF Apply, WriteDunning, Tell, Lapse, Credit, ClaimEvent, At
    <3>4. AfterApply(KindAt(h)) # "write"
      BY <3>3 DEF AfterApply, EventKinds
    <3> QED
      BY <2>1, <3>1, <3>2, <3>4
  <2>4. CASE Duplicate(h) \/ Unavailable(h) \/ Throw(h) \/ Crash(h) \/ Answer(h)
    BY <2>1, <2>4, Stopping DEF Duplicate, Unavailable, Throw, Crash, Answer
  <2>5. CASE \E e \in Events : Receive(h, e)
    BY <2>1, <2>5 DEF Receive, BillingShape
  <2> QED
    BY <2>2, <2>3, <2>4, <2>5 DEF Step, Work
<1>5. ASSUME dunning'.open, dunning'.stage = "lapsed"
      PROVE  Warned' \/ \E g \in Handlers : Unsaid(g)'
  <2>1. CASE WriteDunning(h) /\ dunning' # dunning
    <3>1. /\ At(h, "write") /\ Goto(h, AfterWrite(h))
          /\ dunning' = RowAfter(KindAt(h), EventAt(h))
      BY <2>1 DEF WriteDunning
    <3>2. KindAt(h) = "failed" /\ StageOf(EventAt(h)) = "lapsed"
      <4>1. KindAt(h) # "paid" /\ StageOf(EventAt(h)) = "lapsed"
        BY <1>5, <3>1 DEF RowAfter
      <4> QED
        BY <3>1, <4>1 DEF AtItsPlace
    <3>3. ShouldLapse(EventAt(h))
      BY <3>2 DEF ShouldLapse, KindAt
    <3>4. CASE ShouldNotify(h)
      <4>1. handler'[h] # Free /\ handler'[h].pc = "tell" /\ EventAt(h)' = EventAt(h)
        BY <3>1, <3>4, NextPlace DEF AfterWrite
      <4>2. Unsaid(h)'
        BY <1>1, <3>3, <4>1 DEF Unsaid, At, ShouldLapse, StageOf
      <4> QED
        BY <4>2
    <3>5. CASE ~ShouldNotify(h)
      BY <3>1, <3>3, <3>5, LapsesUnsaid, WarnedStays DEF Warnings
    <3> QED
      BY <3>4, <3>5
  <2>2. CASE dunning' = dunning
    <3>1. CASE Warned
      BY <3>1, WarnedStays
    <3>2. ASSUME NEW g \in Handlers \ {h}, Unsaid(g) PROVE Unsaid(g)'
      BY <1>2, <3>2
    <3>3. CASE Unsaid(h)
      <4>1. handler[h] # Free /\ handler[h].pc = "tell"
        BY <3>3 DEF Unsaid, At
      <4>2. CASE Tell(h)
        BY <3>3, <4>2, WarnedStays DEF Unsaid
      <4>3. CASE Crash(h)
        BY <3>3, <4>3 DEF Crash, Warned
      <4> QED
        BY <4>1, <4>2, <4>3 DEF Step, Work, Receive, ClaimEvent, Duplicate, Unavailable, Apply,
           ReadDunning, WriteDunning, Lapse, Credit, Answer, Throw, At
    <3> QED
      BY <1>5, <2>2, <3>1, <3>2, <3>3 DEF Warnings
  <2>3. dunning' = dunning \/ WriteDunning(h)
    BY DEF Step, Work, Receive, ClaimEvent, Duplicate, Unavailable, Apply, ReadDunning, Tell,
       Lapse, Credit, Answer, Throw, Crash, business
  <2> QED
    BY <2>1, <2>2, <2>3
<1>6. ASSUME NEW g \in Handlers
      PROVE  /\ At(g, "lapse")' => Warned'
             /\ At(g, "write")' /\ KindAt(g)' = "failed" /\ handler'[g].previous = "lapsed"
                  => Warned'
  BY <1>2, <1>3, <1>4, WarnedStays DEF Warnings
<1> QED
  BY <1>5, <1>6, PausedWarned DEF Warnings

----------------------------------------------------------------------------
(* Stripe's order.                                                         *)

\* What Stripe has said by its k-th event, from what it had said before.
LEMMA WordGrows ==
  ASSUME NEW k \in Events
  PROVE  /\ StatusBy(1..k) = StatusAfter(k)
         /\ PlanBy(1..k) = IF what[k].kind \notin {"failed", "paid"} \/ ShouldLapse(k)
                           THEN PlanAfter(k) ELSE PlanBy(1..(k - 1))
         /\ OpenBy(1..k) = IF what[k].kind \in {"failed", "paid"} THEN FailedAt(k)
                                                                  ELSE OpenBy(1..(k - 1))
         /\ CreditedBy(1..k) = (CreditedBy(1..(k - 1)) \/ what[k].kind = "updated")
<1>1. k \in 1..k /\ 1..k = (1..(k - 1)) \cup {k} /\ k \in Int
  BY EventFacts
<1>2. ASSUME NEW S \in SUBSET (1..k), k \in S
      PROVE  S # {} /\ (CHOOSE e \in S : \A d \in S : d <= e) = k
  <2>1. \A e \in S : (\A d \in S : d <= e) <=> e = k
    BY <1>1, <1>2
  <2> QED
    BY <1>2, <2>1
<1>3. ASSUME NEW S \in SUBSET (1..k), k \in S
      PROVE  /\ LastOf(S, "paid", PlanAfter) = PlanAfter(k)
             /\ LastOf(S, FALSE, FailedAt) = FailedAt(k)
  BY <1>2, <1>3 DEF LastOf
<1>4. StatusBy(1..k) = StatusAfter(k)
  BY <1>1, <1>2 DEF StatusBy, LastOf
<1>5. PlanBy(1..k) = IF what[k].kind \notin {"failed", "paid"} \/ ShouldLapse(k)
                     THEN PlanAfter(k) ELSE PlanBy(1..(k - 1))
  <2> DEFINE P(e) == what[e].kind \notin {"failed", "paid"} \/ ShouldLapse(e)
             S == {e \in 1..k : P(e)}
  <2>1. CASE P(k)
    <3>1. LastOf(S, "paid", PlanAfter) = PlanAfter(k)
      BY <1>1, <1>3, <2>1
    <3> QED
      BY <2>1, <3>1 DEF PlanBy
  <2>2. CASE ~P(k)
    <3>1. S = {e \in 1..(k - 1) : P(e)}
      BY <1>1, <2>2
    <3> QED
      BY <2>2, <3>1 DEF PlanBy
  <2> QED
    BY <2>1, <2>2
<1>6. OpenBy(1..k) = IF what[k].kind \in {"failed", "paid"} THEN FailedAt(k)
                                                            ELSE OpenBy(1..(k - 1))
  <2> DEFINE P(e) == what[e].kind \in {"failed", "paid"}
             S == {e \in 1..k : P(e)}
  <2>1. CASE P(k)
    <3>1. LastOf(S, FALSE, FailedAt) = FailedAt(k)
      BY <1>1, <1>3, <2>1
    <3> QED
      BY <2>1, <3>1 DEF OpenBy
  <2>2. CASE ~P(k)
    <3>1. S = {e \in 1..(k - 1) : P(e)}
      BY <1>1, <2>2
    <3> QED
      BY <2>2, <3>1 DEF OpenBy
  <2> QED
    BY <2>1, <2>2
<1>7. CreditedBy(1..k) = (CreditedBy(1..(k - 1)) \/ what[k].kind = "updated")
  BY <1>1 DEF CreditedBy
<1> QED
  BY <1>4, <1>5, <1>6, <1>7

\* What Stripe says does not change.
LEMMA WordStays ==
  ASSUME what' = what, NEW S, NEW T, done' = S, claimed' = T
  PROVE  /\ StatusBy(done)' = StatusBy(S)
         /\ PlanBy(done)' = PlanBy(S) /\ PlanBy(claimed)' = PlanBy(T)
         /\ OpenBy(done)' = OpenBy(S) /\ OpenBy(claimed)' = OpenBy(T)
         /\ CreditedBy(done)' = CreditedBy(S) /\ CreditedBy(claimed)' = CreditedBy(T)
<1>1. \A e : ShouldLapse(e)' = ShouldLapse(e) /\ what'[e] = what[e]
  BY DEF ShouldLapse, StageOf
<1>2. StatusBy(done)' = StatusBy(S)
  BY <1>1 DEF StatusBy, LastOf, StatusAfter, ShouldLapse, StageOf
<1>3. PlanBy(done)' = PlanBy(S) /\ PlanBy(claimed)' = PlanBy(T)
  BY <1>1 DEF PlanBy, LastOf, PlanAfter, ShouldLapse, StageOf
<1>4. OpenBy(done)' = OpenBy(S) /\ OpenBy(claimed)' = OpenBy(T)
  BY <1>1 DEF OpenBy, LastOf, FailedAt
<1>5. CreditedBy(done)' = CreditedBy(S) /\ CreditedBy(claimed)' = CreditedBy(T)
  BY <1>1 DEF CreditedBy
<1> QED
  BY <1>2, <1>3, <1>4, <1>5

\* Undisturbed, there is one request at work, and its event is Stripe's next.
LEMMA OneAtWork ==
  ASSUME BillingShape, OneEach, InOrder, ~disturbed, NEW h \in Handlers, Working(h),
         NEW k, k = EventAt(h)
  PROVE  /\ k \in Events /\ claimed = 1..k /\ done = 1..(k - 1)
         /\ \A g \in Handlers : Working(g) => g = h
<1>1. PICK n \in 0..NumEvents : claimed = 1..n /\ done \in {1..n, 1..(n - 1)}
  BY DEF InOrder
<1>2. n \in Int /\ \A g \in Handlers : Working(g) => EventAt(g) \in claimed \ done
  BY <1>1, EventFacts DEF OneEach
<1>3. done = 1..(n - 1)
  BY <1>1, <1>2
<1>4. \A e \in (1..n) \ (1..(n - 1)) : e = n
  BY <1>2
<1>5. \A g \in Handlers : Working(g) => EventAt(g) = n
  BY <1>1, <1>2, <1>3, <1>4
<1> QED
  BY <1>1, <1>2, <1>3, <1>5 DEF OneEach, BillingShape

LEMMA OrderKeeps ==
  ASSUME BillingShape, OneEach, InOrder, NEW h \in Handlers, Step(h)
  PROVE  InOrder' /\ (disturbed => disturbed')
<1>1. StepOf(h)
  BY WhoSteps DEF Step
<1>2. disturbed => disturbed'
  BY DEF Step, Work, Receive, ClaimEvent, Duplicate, Unavailable, Apply, ReadDunning,
         WriteDunning, Tell, Lapse, Credit, Answer, Throw, Crash
<1> SUFFICES ASSUME ~disturbed'
             PROVE  \E k \in 0..NumEvents : claimed' = 1..k /\ done' \in {1..k, 1..(k - 1)}
  BY <1>2 DEF InOrder
<1>3. PICK n \in 0..NumEvents : claimed = 1..n /\ done \in {1..n, 1..(n - 1)}
  BY <1>2 DEF InOrder
<1>4. CASE Opens(h) \/ Goes(h) \/ Leaves(h)
  BY <1>3, <1>4 DEF Opens, Goes, Leaves
<1>5. CASE ClaimEvent(h)
  <2>1. PICK e \in Events : e = EventAt(h)
    BY <1>5, RequestAt DEF ClaimEvent, At
  <2>2. /\ e \notin claimed /\ claimed' = claimed \cup {e} /\ done' = done
        /\ \A d \in Events : (d < e => d \in done) /\ (d > e => d \notin claimed)
    BY <1>5, <2>1 DEF ClaimEvent, ClaimSucceeds
  <2>3. e \in Int /\ n \in Int /\ e \in 1..NumEvents /\ NumEvents \in Nat
    BY <2>1, EventFacts
  <2>4. done \subseteq claimed
    BY DEF BillingShape
  <2>5. n < e
    BY <1>3, <2>2, <2>3
  <2>6. ~(n + 1 < e)
    BY <1>3, <2>2, <2>3, <2>4, <2>5, EventFacts
  <2>7. e = n + 1
    BY <2>3, <2>5, <2>6
  <2>8. done = 1..n
    BY <1>3, <2>2, <2>3, <2>7, EventFacts
  <2> QED
    BY <1>3, <2>2, <2>3, <2>7, <2>8
<1>6. CASE Answer(h)
  <2>1. Working(h) /\ claimed' = claimed /\ done' = done \cup {EventAt(h)}
    BY <1>6 DEF Answer, At, Working
  <2>2. PICK k : k = EventAt(h)
    OBVIOUS
  <2>3. k \in Events /\ claimed = 1..k /\ done = 1..(k - 1)
    BY <1>2, <2>1, <2>2, OneAtWork
  <2>4. done' = 1..k /\ k \in 0..NumEvents
    BY <2>1, <2>2, <2>3, EventFacts
  <2> QED
    BY <2>1, <2>3, <2>4
<1> QED
  BY <1>1, <1>4, <1>5, <1>6 DEF StepOf

\* Where nothing moves, nothing has to be caught up with.
LEMMA ReachedStays ==
  ASSUME NEW g \in Handlers, Reached(g), handler'[g] = handler[g],
         UNCHANGED <<what, claimed, done, business>>
  PROVE  Reached(g)'
<1>1. /\ StatusBy(done)' = StatusBy(done)
      /\ PlanBy(done)' = PlanBy(done) /\ PlanBy(claimed)' = PlanBy(claimed)
      /\ OpenBy(done)' = OpenBy(done) /\ OpenBy(claimed)' = OpenBy(claimed)
      /\ CreditedBy(done)' = CreditedBy(done) /\ CreditedBy(claimed)' = CreditedBy(claimed)
  BY WordStays
<1>2. \A e : StatusAfter(e)' = StatusAfter(e) /\ what'[e] = what[e]
  BY DEF StatusAfter, ShouldLapse, StageOf
<1> QED
  BY <1>1, <1>2 DEF Reached, EventAt, business

\* Each statement brings the workspace a step nearer to what Stripe says.
LEMMA ReachedGoes ==
  ASSUME BillingShape, OneEach, AtItsPlace, Following, NEW h \in Handlers, Step(h), Goes(h),
         ~disturbed'
  PROVE  Reached(h)'
<1>1. ~disturbed /\ Working(h) /\ InOrder /\ Reached(h)
  BY OrderKeeps DEF Following, Goes
<1>2. PICK k : k = EventAt(h)
  OBVIOUS
<1>3. k \in Events /\ claimed = 1..k /\ done = 1..(k - 1)
  BY <1>1, <1>2, OneAtWork
<1>4. PICK S, T : S = 1..(k - 1) /\ T = 1..k
  OBVIOUS
<1>5. /\ done = S /\ claimed = T /\ done' = S /\ claimed' = T
      /\ what' = what /\ EventAt(h)' = k
  BY <1>2, <1>3, <1>4, WhoSteps DEF Goes, EventAt, Step
<1>6. /\ StatusBy(done)' = StatusBy(S)
      /\ PlanBy(done)' = PlanBy(S) /\ PlanBy(claimed)' = PlanBy(T)
      /\ OpenBy(done)' = OpenBy(S) /\ OpenBy(claimed)' = OpenBy(T)
      /\ CreditedBy(done)' = CreditedBy(S) /\ CreditedBy(claimed)' = CreditedBy(T)
  BY <1>5, WordStays
<1>7. PICK kind \in EventKinds : kind = what[k].kind /\ kind = KindAt(h)
  BY <1>1, <1>2, RequestAt DEF Working, KindAt
<1>8. StatusAfter(k)' = StatusAfter(k) /\ what'[k].kind = kind
  BY <1>5, <1>7 DEF StatusAfter, ShouldLapse, StageOf
<1>9. /\ ShouldLapse(k) => kind = "failed"
      /\ StatusAfter(k) = IF ShouldLapse(k) THEN "unpaid" ELSE StatusFrom(kind)
      /\ PlanBy(T) = IF kind \in {"failed", "paid"} /\ ~ShouldLapse(k) THEN PlanBy(S)
                     ELSE IF kind = "updated" THEN "paid" ELSE "lapsed"
      /\ OpenBy(T) = IF kind = "failed" THEN TRUE ELSE IF kind = "paid" THEN FALSE ELSE OpenBy(S)
      /\ CreditedBy(T) = IF kind = "updated" THEN TRUE ELSE CreditedBy(S)
  <2>1. ShouldLapse(k) => kind = "failed"
    BY <1>7 DEF ShouldLapse
  <2>2. CreditedBy(S) \in BOOLEAN
    BY DEF CreditedBy
  <2>3. CreditedBy(T) = IF kind = "updated" THEN TRUE ELSE CreditedBy(S)
    BY <1>3, <1>4, <1>7, <2>2, WordGrows
  <2> QED
    BY <1>3, <1>4, <1>7, <2>1, <2>3, WordGrows DEF StatusAfter, PlanAfter, FailedAt
<1>10. PICK x, y : x = handler[h].pc /\ y = handler'[h].pc
  OBVIOUS
<1>11. /\ subscription_status = CASE x = "apply"  -> StatusBy(S)
                                  [] x = "finish" -> StatusAfter(k)
                                  [] OTHER        -> StatusFrom(kind)
       /\ plan = IF x \in {"credit", "finish"} THEN PlanBy(T) ELSE PlanBy(S)
       /\ dunning.open = IF x \in {"tell", "lapse", "finish"} THEN OpenBy(T) ELSE OpenBy(S)
       /\ credited = IF x = "finish" THEN CreditedBy(T) ELSE CreditedBy(S)
  BY <1>1, <1>2, <1>5, <1>7, <1>10 DEF Reached
<1> SUFFICES
       /\ subscription_status' = CASE y = "apply"  -> StatusBy(S)
                                   [] y = "finish" -> StatusAfter(k)
                                   [] OTHER        -> StatusFrom(kind)
       /\ plan' = IF y \in {"credit", "finish"} THEN PlanBy(T) ELSE PlanBy(S)
       /\ dunning'.open = IF y \in {"tell", "lapse", "finish"} THEN OpenBy(T) ELSE OpenBy(S)
       /\ credited' = IF y = "finish" THEN CreditedBy(T) ELSE CreditedBy(S)
  BY <1>5, <1>6, <1>8, <1>10 DEF Reached
<1>12. AfterTell(k) = IF ShouldLapse(k) THEN "lapse" ELSE "finish"
  BY DEF AfterTell
<1>13. CASE Apply(h)
  <2>1. /\ x = "apply" /\ y = AfterApply(kind) /\ subscription_status' = StatusFrom(kind)
        /\ plan' = CASE kind = "updated"                   -> "paid"
                     [] kind \in {"delinquent", "deleted"} -> "lapsed"
                     [] OTHER                              -> plan
        /\ UNCHANGED <<dunning, credited>>
    BY <1>7, <1>10, <1>13, NextPlace DEF Apply, At
  <2>2. y = CASE kind \in {"failed", "paid"} -> "read"
              [] kind = "updated"            -> "credit"
              [] kind \in {"delinquent", "deleted"} -> "finish"
    BY <2>1 DEF AfterApply
  <2>3. CASE kind \in {"failed", "paid"}
    BY <1>9, <1>11, <2>1, <2>2, <2>3
  <2>4. CASE kind = "updated"
    BY <1>9, <1>11, <2>1, <2>2, <2>4
  <2>5. CASE kind \in {"delinquent", "deleted"}
    BY <1>9, <1>11, <2>1, <2>2, <2>5
  <2> QED
    BY <2>3, <2>4, <2>5 DEF EventKinds
<1>14. CASE ReadDunning(h)
  <2>1. /\ x = "read" /\ y \in {"write", "finish"} /\ UNCHANGED business
        /\ y = "finish" => kind # "failed" /\ ~dunning.open
    BY <1>7, <1>10, <1>14, NextRead DEF ReadDunning, At
  <2>2. kind \in {"failed", "paid"}
    BY <1>7, <1>14 DEF ReadDunning, AtItsPlace
  <2>3. dunning.open \in BOOLEAN
    BY DEF BillingShape
  <2> QED
    BY <1>9, <1>11, <2>1, <2>2, <2>3 DEF business
<1>15. CASE WriteDunning(h)
  <2>1. /\ x = "write" /\ y = AfterWrite(h)
        /\ dunning' = RowAfter(kind, k)
        /\ UNCHANGED <<plan, subscription_status, credited>>
    BY <1>2, <1>7, <1>10, <1>15, NextPlace, EventsAssumption DEF WriteDunning, At
  <2>2. kind \in {"failed", "paid"}
    BY <1>7, <1>15 DEF WriteDunning, AtItsPlace
  <2>3. y = "tell" \/ y = AfterTell(k)
    BY <1>2, <2>1 DEF AfterWrite
  <2>4. dunning'.open = (kind = "failed")
    BY <2>1, <2>2 DEF RowAfter
  <2> QED
    BY <1>9, <1>11, <1>12, <2>1, <2>2, <2>3, <2>4
<1>16. CASE Tell(h)
  <2>1. x = "tell" /\ y = AfterTell(k) /\ UNCHANGED business
    BY <1>2, <1>10, <1>16, NextPlace DEF Tell, At
  <2>2. kind \in {"failed", "paid"}
    BY <1>7, <1>16 DEF Tell, AtItsPlace
  <2> QED
    BY <1>9, <1>11, <1>12, <2>1, <2>2 DEF business
<1>17. CASE Lapse(h)
  <2>1. /\ x = "lapse" /\ y = "finish" /\ plan' = "lapsed" /\ subscription_status' = "unpaid"
        /\ UNCHANGED <<dunning, credited>>
    BY <1>10, <1>17, NextPlace DEF Lapse, At
  <2>2. ShouldLapse(k)
    BY <1>2, <1>17 DEF Lapse, AtItsPlace
  <2> QED
    BY <1>9, <1>11, <2>1, <2>2
<1>18. CASE Credit(h)
  <2>1. /\ x = "credit" /\ y = "finish" /\ credited' = TRUE
        /\ UNCHANGED <<plan, subscription_status, dunning>>
    BY <1>10, <1>18, NextPlace, EventsAssumption DEF Credit, At
  <2>2. kind = "updated"
    BY <1>7, <1>18 DEF Credit, AtItsPlace
  <2> QED
    BY <1>9, <1>11, <2>1, <2>2
<1> QED
  <2>1. handler[h] # Free /\ handler'[h] # Free /\ handler'[h].pc # "claim"
        /\ handler[h].pc # "claim"
    BY DEF Goes, Working
  <2>2. ~Answer(h) /\ ~Throw(h) /\ ~Crash(h) /\ ~Duplicate(h) /\ ~Unavailable(h) /\ ~ClaimEvent(h)
    BY <2>1, Stopping DEF Answer, Throw, Crash, Duplicate, Unavailable, ClaimEvent, At
  <2>3. ~\E e \in Events : Receive(h, e)
    BY <2>1 DEF Receive
  <2> QED
    BY <1>13, <1>14, <1>15, <1>16, <1>17, <1>18, <2>2, <2>3 DEF Step, Work

LEMMA FollowingKeeps ==
  ASSUME BillingShape, OneEach, AtItsPlace, Following, NEW h \in Handlers, Step(h)
  PROVE  Following'
<1>1. /\ StepOf(h) /\ what' = what
      /\ \A g \in Handlers \ {h} : handler'[g] = handler[g]
  BY WhoSteps DEF Step
<1>2. InOrder' /\ (disturbed => disturbed')
  BY OrderKeeps DEF Following
<1> SUFFICES ASSUME ~disturbed'
             PROVE  /\ claimed' = done' => Follows(done)'
                    /\ \A g \in Handlers : Working(g)' => Reached(g)'
  BY <1>2 DEF Following
<1>3. ~disturbed /\ InOrder
  BY <1>2 DEF Following
<1>4. \A g \in Handlers \ {h} : Working(g)' = Working(g)
  BY <1>1 DEF Working
<1>5. CASE Opens(h) \/ Leaves(h)
  <2>1. ~Working(h)' /\ UNCHANGED <<claimed, done, business>>
    BY <1>5 DEF Opens, Leaves, Working
  <2>2. claimed' = done' => Follows(done)'
    <3>1. /\ StatusBy(done)' = StatusBy(done) /\ PlanBy(done)' = PlanBy(done)
          /\ OpenBy(done)' = OpenBy(done) /\ CreditedBy(done)' = CreditedBy(done)
      BY <1>1, <2>1, WordStays
    <3> QED
      BY <1>3, <2>1, <3>1 DEF Following, Follows, business
  <2>3. \A g \in Handlers : Working(g)' => Reached(g)'
    BY <1>1, <1>3, <1>4, <2>1, ReachedStays DEF Following
  <2> QED
    BY <2>2, <2>3
<1>6. CASE Goes(h)
  <2>1. Working(h) /\ UNCHANGED <<claimed, done>>
    BY <1>6 DEF Goes
  <2>2. claimed' # done' /\ \A g \in Handlers : Working(g)' => g = h
    BY <1>3, <1>4, <2>1, OneAtWork DEF OneEach
  <2> QED
    BY <1>6, <2>2, ReachedGoes
<1>7. CASE ClaimEvent(h) /\ handler'[h].pc = "apply"
  <2>1. PICK e \in Events : e = EventAt(h)
    BY <1>7, RequestAt DEF ClaimEvent, At
  <2>2. /\ e \notin claimed /\ claimed' = claimed \cup {e} /\ UNCHANGED <<done, business>>
        /\ \A d \in Events : (d < e => d \in done) /\ (d > e => d \notin claimed)
    BY <1>7, <2>1 DEF ClaimEvent, ClaimSucceeds
  <2>3. claimed = done
    <3>1. \A d \in claimed : d \in Events /\ d \in Int /\ ~(d > e) /\ d # e
      BY <2>2, EventFacts DEF BillingShape
    <3>2. e \in Int
      BY EventFacts
    <3>3. claimed \subseteq done
      BY <2>2, <3>1, <3>2
    <3> QED
      BY <3>3 DEF BillingShape
  <2>4. Follows(done)
    BY <1>3, <2>3 DEF Following
  <2>5. claimed' # done'
    BY <2>2, <2>3
  <2>6. \A g \in Handlers : Working(g)' => g = h
    BY <1>4, <2>3 DEF OneEach
  <2>7. Reached(h)'
    <3>1. /\ StatusBy(done)' = StatusBy(done) /\ PlanBy(done)' = PlanBy(done)
          /\ OpenBy(done)' = OpenBy(done) /\ CreditedBy(done)' = CreditedBy(done)
      BY <1>1, <2>2, WordStays
    <3> QED
      BY <1>7, <2>2, <2>4, <3>1 DEF Follows, Reached, business
  <2> QED
    BY <2>5, <2>6, <2>7
<1>8. CASE Answer(h) /\ handler'[h] = Free
  <2>1. /\ Working(h) /\ ~Working(h)' /\ handler[h].pc = "finish"
        /\ claimed' = claimed /\ done' = done \cup {EventAt(h)} /\ UNCHANGED business
    BY <1>8 DEF Answer, At, Working
  <2>2. PICK k : k = EventAt(h)
    OBVIOUS
  <2>3. k \in Events /\ claimed = 1..k /\ done = 1..(k - 1)
        /\ \A g \in Handlers : Working(g) => g = h
    BY <1>3, <2>1, <2>2, OneAtWork
  <2>4. \A g \in Handlers : ~Working(g)'
    BY <1>4, <2>1, <2>3
  <2>5. Reached(h)
    BY <1>3, <2>1 DEF Following
  <2>6. PICK T : T = 1..k
    OBVIOUS
  <2>7. done' = T /\ claimed' = T /\ claimed = T
    BY <2>1, <2>2, <2>3, <2>6, EventFacts
  <2>8. /\ StatusBy(done)' = StatusBy(T) /\ PlanBy(done)' = PlanBy(T)
        /\ OpenBy(done)' = OpenBy(T) /\ CreditedBy(done)' = CreditedBy(T)
    BY <1>1, <2>7, WordStays
  <2>9. StatusBy(T) = StatusAfter(k)
    BY <2>3, <2>6, WordGrows
  <2>10. /\ subscription_status = StatusBy(T) /\ plan = PlanBy(T)
         /\ dunning.open = OpenBy(T) /\ credited = CreditedBy(T)
    BY <2>1, <2>2, <2>5, <2>7, <2>9 DEF Reached
  <2>11. Follows(done)'
    BY <2>1, <2>8, <2>10 DEF Follows, business
  <2> QED
    BY <2>4, <2>11
<1> QED
  BY <1>1, <1>5, <1>6, <1>7, <1>8 DEF StepOf

----------------------------------------------------------------------------

LEMMA BillingInitially == BillingInit => BillingInv
<1> SUFFICES ASSUME BillingInit PROVE BillingInv
  OBVIOUS
<1>1. /\ \A h \in Handlers : handler[h] = Free
      /\ claimed = {} /\ done = {} /\ told = <<>> /\ dunning.open = FALSE
  BY DEF BillingInit
<1>2. BillingShape
  <2>1. dunning \in [stage : {"none", "recovered"} \cup StageNames, open : BOOLEAN]
    BY DEF BillingInit
  <2>2. told \in Seq({"recovered"} \cup StageNames)
    BY <1>1
  <2>3. handler \in [Handlers -> Requests \cup {Free}] /\ runs \in [Events -> Nat]
    BY DEF BillingInit
  <2> QED
    BY <1>1, <2>1, <2>2, <2>3 DEF BillingInit, BillingShape
<1>3. OneEach /\ AtItsPlace
  BY <1>1 DEF BillingInit, OneEach, AtItsPlace, Working, At
<1>4. ToldAtMost
  <2>1. claimed \ Owing = {}
    BY <1>1
  <2> QED
    BY <1>1, <2>1, FS_EmptySet DEF ToldAtMost
<1>5. Warnings
  BY <1>1 DEF BillingInit, Warnings, WarnedBeforeLapsed, At
<1>6. Following
  <2>1. 0 \in 0..NumEvents /\ 1..0 = {}
    BY EventFacts
  <2>2. InOrder
    BY <1>1, <2>1 DEF InOrder
  <2>3. Follows(done)
    BY <1>1 DEF BillingInit, Follows, StatusBy, PlanBy, OpenBy, CreditedBy, LastOf
  <2> QED
    BY <1>1, <2>2, <2>3 DEF Following, Working
<1> QED
  BY <1>2, <1>3, <1>4, <1>5, <1>6 DEF BillingInv

LEMMA BillingStep == BillingInv /\ [BillingNext]_billingVars => BillingInv'
<1> SUFFICES ASSUME BillingInv, [BillingNext]_billingVars PROVE BillingInv'
  OBVIOUS
<1>1. CASE BillingNext
  <2>1. PICK h \in Handlers : Step(h)
    BY <1>1 DEF BillingNext, Step
  <2>2. BillingShape /\ OneEach /\ AtItsPlace /\ ToldAtMost /\ Warnings /\ Following
    BY DEF BillingInv
  <2> QED
    BY <2>1, <2>2, BillingShapeKeeps, OneEachKeeps, PlaceKeeps, CountKeeps, WarningsKeep,
       FollowingKeeps DEF BillingInv
<1>2. CASE UNCHANGED billingVars
  <2>1. UNCHANGED <<what, claimed, acked, handler, plan, subscription_status, dunning, credited,
                    told, runs, done, disturbed, silenced>>
    BY <1>2 DEF billingVars, business
  <2>2. BillingShape' /\ OneEach'
    BY <2>1 DEF BillingInv, BillingShape, OneEach, Working, EventAt
  <2>3. AtItsPlace'
    BY <2>1 DEF BillingInv, AtItsPlace, EventAt, KindAt, At, ShouldLapse, StageOf
  <2>4. ToldAtMost'
    <3>1. Owing' = Owing
      BY <2>1 DEF Owing, Untold, At, EventAt
    <3> QED
      BY <2>1, <3>1 DEF BillingInv, ToldAtMost
  <2>5. Warnings'
    BY <2>1 DEF BillingInv, Warnings, WarnedBeforeLapsed, Warned, ToldLapsed, Unsaid, At, EventAt,
       KindAt, ShouldLapse, StageOf
  <2>6. Following'
    <3>1. InOrder'
      BY <2>1 DEF BillingInv, Following, InOrder
    <3>2. \A h \in Handlers : Reached(h) => Reached(h)'
      BY <2>1, ReachedStays DEF business
    <3>3. /\ StatusBy(done)' = StatusBy(done) /\ PlanBy(done)' = PlanBy(done)
          /\ OpenBy(done)' = OpenBy(done) /\ CreditedBy(done)' = CreditedBy(done)
      BY <2>1, WordStays
    <3>4. Follows(done) => Follows(done)'
      BY <2>1, <3>3 DEF Follows
    <3> QED
      BY <2>1, <3>1, <3>2, <3>4 DEF BillingInv, Following, Working
  <2> QED
    BY <2>2, <2>3, <2>4, <2>5, <2>6 DEF BillingInv
<1> QED
  BY <1>1, <1>2

\* Every step of the webhook keeps its invariant.
THEOREM BillingInvariance == BillingSpec => []BillingInv
<1> QED
  BY BillingInitially, BillingStep, PTL DEF BillingSpec

\* The claim holds: for any number of events and requests, each event is handled at most
\* once, none is acknowledged that is not on record, and the merchant is not written to more
\* often than events were claimed.
THEOREM EventsClaimedOnce == BillingSpec => []ClaimedOnce
<1>1. ASSUME BillingInv PROVE ClaimedOnce
  <2>1. BillingShape /\ OneEach /\ ToldAtMost
    BY <1>1 DEF BillingInv
  <2>2. HandledOnce
    BY <2>1 DEF OneEach, HandledOnce
  <2>3. AckedIsClaimed
    BY <2>1 DEF BillingShape, AckedIsClaimed
  <2>4. Len(told) <= Cardinality(claimed)
    <3>1. IsFiniteSet(claimed)
      BY <2>1, EventFacts, FS_Subset DEF BillingShape
    <3>2. claimed \ Owing \subseteq claimed
      OBVIOUS
    <3>3. Cardinality(claimed \ Owing) <= Cardinality(claimed)
          /\ IsFiniteSet(claimed \ Owing)
      BY <3>1, <3>2, FS_Subset
    <3>4. Cardinality(claimed) \in Nat /\ Cardinality(claimed \ Owing) \in Nat
      BY <3>1, <3>3, FS_CardinalityType
    <3> QED
      BY <2>1, <3>3, <3>4 DEF ToldAtMost, BillingShape
  <2>5. StageNames = {Stages[i] : i \in 1..4}
    <3>1. /\ Stages[1] = "first" /\ Stages[2] = "retry" /\ Stages[3] = "final"
          /\ Stages[4] = "lapsed"
      BY DEF Stages
    <3>2. \A i \in 1..4 : i = 1 \/ i = 2 \/ i = 3 \/ i = 4
      OBVIOUS
    <3> QED
      BY <3>1, <3>2 DEF StageNames
  <2>6. \A h \in Handlers : handler[h] = Free \/
          /\ EventAt(h) \in Events /\ handler[h].pc \in Steps
          /\ handler[h].previous \in {"none"} \cup StageNames
    BY <2>1, RequestAt DEF Requests
  <2>7. TypeOK
    BY <2>1, <2>4, <2>5, <2>6 DEF BillingShape, TypeOK
  <2> QED
    BY <2>2, <2>3, <2>7 DEF ClaimedOnce
<1> QED
  BY <1>1, BillingInvariance, PTL

\* Warn before, never after: no workspace is paused whose owner was not told, for any script
\* of declines and any interleaving of the requests, but for the message `silenced` names.
THEOREM LapsesAreWarnedOf == BillingSpec => []WarnedBeforeLapsed
<1>1. BillingInv => WarnedBeforeLapsed
  BY DEF BillingInv, Warnings
<1> QED
  BY <1>1, BillingInvariance, PTL

\* Handled in Stripe's order with nothing lost, any number of events of any kind leave the
\* workspace where Stripe says it is.
THEOREM StripeIsFollowed == BillingSpec => []FollowsStripe
<1>1. BillingInv => FollowsStripe
  BY DEF BillingInv, Following, Follows, FollowsStripe, StatusBy, PlanBy, OpenBy, CreditedBy
<1> QED
  BY <1>1, BillingInvariance, PTL
=============================================================================
