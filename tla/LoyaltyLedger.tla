--------------------------- MODULE LoyaltyLedger ---------------------------
(***************************************************************************)
(* The points ledger of db/migrations/000006_loyalty_functions.sql: every  *)
(* change of a customer's balance is one row of loyalty_ledger, a credit   *)
(* row is also a LOT whose unspent part (column "remaining") is consumed   *)
(* soonest-expiring first, and loyalty_accounts caches the balance and the *)
(* next expiry date.                                                       *)
(*                                                                         *)
(* Each function of the migration is one transaction at READ COMMITTED.    *)
(* What such a transaction reads before it holds the account's row lock    *)
(* may be stale when it writes, so the two unlocked reads of the code are  *)
(* steps of their own: the idempotency lookup (Begin) and the cursor of    *)
(* the nightly expiry sweep (SweepOpen).  Everything from the lock to the  *)
(* commit is a single step.                                                *)
(***************************************************************************)
EXTENDS Integers, Sequences, FiniteSets, UnitSums

CONSTANTS
  Accounts,    \* loyalty_accounts rows, one per customer and program
  Requests,    \* calls of credit or debit; a request is its own idempotency key
  Op,          \* what each request asks: [kind, acct, amount]
  None,        \* no request: an idle caller, or an entry written without a key
  Callers,     \* database sessions that run credit_account and debit_account
  Sweepers,    \* database sessions that run expire_balances
  Lifetimes,   \* lifetimes a program can give a lot (expiry_months)
  Never,       \* the expiry of a lot that does not expire: "nulls last"
  Horizon,     \* bound: the clock stops here
  MaxEntries   \* bound: no credit, debit or merge starts on a longer ledger

OpKinds == {"credit", "debit"}

ASSUME RequestsAssumption ==
  /\ None \notin Requests
  /\ Op \in [Requests -> [kind : OpKinds, acct : Accounts, amount : Nat \ {0}]]

ASSUME TimeAssumption ==
  /\ Horizon \in Nat /\ Never \in Nat /\ MaxEntries \in Nat
  /\ Lifetimes \subseteq Nat
  /\ \A life \in Lifetimes : Horizon + life < Never

VARIABLES
  ledger,      \* loyalty_ledger, in commit order: its immutable columns
  remaining,   \* loyalty_ledger.remaining, the one column that changes
  balance,     \* loyalty_accounts.balance
  nextExpiry,  \* loyalty_accounts.next_expiry_at
  now,         \* the database clock
  pending,     \* per caller, the request whose key was not found, and when
  sweep,       \* per sweeper, the cursor's rows and the accounts it has locked
  raced        \* history: accounts a sweep charged with an amount it had read
               \* before somebody else changed it

vars == <<ledger, remaining, balance, nextExpiry, now, pending, sweep, raced>>

CreditKinds == {"earn", "transfer_in"}       \* 'adjust' behaves like 'earn'
DebitKinds  == {"redeem", "transfer_out"}
Kinds == CreditKinds \cup DebitKinds \cup {"expire"}

Entry == [acct : Accounts, kind : Kinds, amount : Int, after : Nat,
          expires : Nat, key : Requests \cup {None}]

Entries == 1..Len(ledger)

Min2(x, y) == IF x <= y THEN x ELSE y
Max0(x) == IF x >= 0 THEN x ELSE 0           \* greatest(0, x)

----------------------------------------------------------------------------
(* Lots: the credits of an account, which a debit consumes.                *)

Lots(a) == {i \in Entries : ledger[i].acct = a /\ ledger[i].kind \in CreditKinds}
OpenCredit(a) == Sum(Lots(a), remaining)

\* Mutant: consumption in the order the lots were written.
OldestFirst(i, j) == i < j

\* order by expires_at asc nulls last, created_at asc
Earlier(i, j) == \/ ledger[i].expires < ledger[j].expires
                 \/ ledger[i].expires = ledger[j].expires /\ i < j

LotsBefore(i) == {j \in Lots(ledger[i].acct) : Earlier(j, i)}

\* Mutant: the loop stops after one lot.
TakeFirstLotOnly(d, i) ==
  IF Sum(LotsBefore(i), remaining) = 0 THEN Min2(remaining[i], d) ELSE 0

\* What the FIFO loop of a debit of d units takes from lot i.
Take(d, i) == Min2(remaining[i], Max0(d - Sum(LotsBefore(i), remaining)))

\* select min(expires_at) ... where remaining > 0 and expires_at is not null,
\* over the ledger l with the remaining column r.
IsNextExpiry(l, r, a, t) ==
  LET open == {i \in 1..Len(l) : l[i].acct = a /\ r[i] > 0}
  IN  /\ \A i \in open : t <= l[i].expires
      /\ t # Never => \E i \in open : l[i].expires = t

NextExpiry(l, r, a) ==
  CHOOSE t \in {l[i].expires : i \in 1..Len(l)} \cup {Never} : IsNextExpiry(l, r, a, t)

\* Mutant: only the account a credit or a merge adds to is refreshed.
RefreshedOnGrowth(A, l, r) ==
  [a \in Accounts |-> IF a \in A /\ r[Len(r)] > 0 THEN NextExpiry(l, r, a)
                                                ELSE nextExpiry[a]]

\* The caches of the accounts in A, recomputed after a write.
Refreshed(A, l, r) ==
  [a \in Accounts |-> IF a \in A THEN NextExpiry(l, r, a) ELSE nextExpiry[a]]

ExpiresAt(at, life) == IF life = Never THEN Never ELSE at + life

----------------------------------------------------------------------------
KeyUsed(r) == \E i \in Entries : ledger[i].key = r

Idle == [req |-> None, at |-> 0]
Asleep == [seen |-> [i \in {} |-> 0], locked |-> {}]

Locked(a) == \E w \in Sweepers : a \in sweep[w].locked

Init ==
  /\ ledger = <<>>
  /\ remaining = <<>>
  /\ balance = [a \in Accounts |-> 0]
  /\ nextExpiry = [a \in Accounts |-> Never]
  /\ now = 0
  /\ pending = [c \in Callers |-> Idle]
  /\ sweep = [w \in Sweepers |-> Asleep]
  /\ raced = {}

\* The idempotency lookup, and now() of the transaction that goes on when the
\* key is new.  A call whose key is found returns the first result and writes
\* nothing.
Begin(c, r) ==
  /\ pending[c] = Idle
  /\ Len(ledger) < MaxEntries
  /\ ~KeyUsed(r)
  /\ pending' = [pending EXCEPT ![c] = [req |-> r, at |-> now]]
  /\ UNCHANGED <<ledger, remaining, balance, nextExpiry, now, sweep, raced>>

\* The caller whose key another transaction has committed meanwhile: the insert
\* violates the unique index and the transaction rolls back.
Collide(c) ==
  /\ pending[c] # Idle
  /\ KeyUsed(pending[c].req)
  /\ pending' = [pending EXCEPT ![c] = Idle]
  /\ UNCHANGED <<ledger, remaining, balance, nextExpiry, now, sweep, raced>>

\* Appends the entries es, whose lots hold the units rs, after setting the
\* remaining column of the entries already there to kept.
Write(es, rs, kept, A) ==
  /\ ledger' = ledger \o es
  /\ remaining' = [i \in 1..Len(ledger) + Len(es) |->
                     IF i <= Len(ledger) THEN kept[i] ELSE rs[i - Len(ledger)]]
  /\ nextExpiry' = Refreshed(A, ledger', remaining')

\* Mutant: an index that is not unique.
KeyNotChecked(r) == r \in Requests

\* The unique index on (business_id, idempotency_key).
KeyFree(r) == ~KeyUsed(r)

Credit(c, life) ==
  LET r == pending[c].req
      a == Op[r].acct
      n == Op[r].amount
      e == [acct |-> a, kind |-> "earn", amount |-> n, after |-> balance[a] + n,
            expires |-> ExpiresAt(pending[c].at, life), key |-> r]
  IN  /\ pending[c] # Idle
      /\ Op[r].kind = "credit"
      /\ ~Locked(a)
      /\ KeyFree(r)
      /\ Write(<<e>>, <<n>>, remaining, {a})
      /\ balance' = [balance EXCEPT ![a] = @ + n]
      /\ pending' = [pending EXCEPT ![c] = Idle]
      /\ UNCHANGED <<now, sweep, raced>>

\* What a debit of d units from account a leaves in every entry.
AfterDebit(a, d) ==
  [i \in Entries |-> IF i \in Lots(a) THEN remaining[i] - Take(d, i) ELSE remaining[i]]

Debit(c) ==
  LET r == pending[c].req
      a == Op[r].acct
      d == Op[r].amount
      e == [acct |-> a, kind |-> "redeem", amount |-> -d, after |-> balance[a] - d,
            expires |-> Never, key |-> r]
  IN  /\ pending[c] # Idle
      /\ Op[r].kind = "debit"
      /\ ~Locked(a)
      /\ KeyFree(r)
      /\ balance[a] >= d
      /\ Write(<<e>>, <<0>>, AfterDebit(a, d), {a})
      /\ balance' = [balance EXCEPT ![a] = @ - d]
      /\ pending' = [pending EXCEPT ![c] = Idle]
      /\ UNCHANGED <<now, sweep, raced>>

\* "Insufficient balance": the exception rolls the transaction back.
Refuse(c) ==
  LET r == pending[c].req
  IN  /\ pending[c] # Idle
      /\ Op[r].kind = "debit"
      /\ ~Locked(Op[r].acct)
      /\ balance[Op[r].acct] < Op[r].amount
      /\ pending' = [pending EXCEPT ![c] = Idle]
      /\ UNCHANGED <<ledger, remaining, balance, nextExpiry, now, sweep, raced>>

\* merge_customers moves the whole balance of the duplicate's account to the
\* survivor's, as a debit and a credit without keys.  Its row locks on both
\* customers keep every other ledger write of theirs out, so it is one step; the
\* lot it opens has a fresh lifetime.
Merge(from, to, life) ==
  LET n == balance[from]
      out == [acct |-> from, kind |-> "transfer_out", amount |-> -n, after |-> 0,
              expires |-> Never, key |-> None]
      in  == [acct |-> to, kind |-> "transfer_in", amount |-> n,
              after |-> balance[to] + n, expires |-> ExpiresAt(now, life),
              key |-> None]
  IN  /\ from # to
      /\ n > 0
      /\ Len(ledger) < MaxEntries
      /\ ~Locked(from) /\ ~Locked(to)
      /\ Write(<<out, in>>, <<0, n>>, AfterDebit(from, n), {from, to})
      /\ balance' = [balance EXCEPT ![from] = 0, ![to] = @ + n]
      /\ UNCHANGED <<now, pending, sweep, raced>>

----------------------------------------------------------------------------
(* The nightly expiry sweep.  Its cursor is a snapshot: the rows and their *)
(* "remaining" are those committed when the loop opened, and the loop      *)
(* charges the account with that amount after it has taken the lock.       *)

Rows(w) == DOMAIN sweep[w].seen
RowsOf(w, a) == {i \in Rows(w) : ledger[i].acct = a}
AccountsOf(w) == {ledger[i].acct : i \in Rows(w)}

Due == {i \in Entries : remaining[i] > 0 /\ ledger[i].expires <= now}

SweepOpen(w) ==
  /\ sweep[w] = Asleep
  /\ Due # {}
  /\ sweep' = [sweep EXCEPT ![w].seen = [i \in Due |-> remaining[i]]]
  /\ UNCHANGED <<ledger, remaining, balance, nextExpiry, now, pending, raced>>

\* select ... from loyalty_accounts ... for update, in the cursor's order.
SweepLock(w) ==
  \E i \in Rows(w) :
    LET a == ledger[i].acct
    IN  /\ ~Locked(a)
        /\ \A j \in Rows(w) :
             ledger[j].acct \notin sweep[w].locked => ledger[i].expires <= ledger[j].expires
        /\ sweep' = [sweep EXCEPT ![w].locked = @ \cup {a}]
        /\ UNCHANGED <<ledger, remaining, balance, nextExpiry, now, pending, raced>>

\* The orders in which the cursor "order by expires_at" can return its rows.
CursorOrders(w) ==
  LET rows == Rows(w)
  IN  {o \in [1..Cardinality(rows) -> rows] :
         \A m, n \in 1..Cardinality(rows) :
           m < n => o[m] # o[n] /\ ledger[o[m]].expires <= ledger[o[n]].expires}

\* What the sweep charges account a for the rows in S: the amounts it has seen.
Charge(w, a, S) == Sum(S \cap RowsOf(w, a), sweep[w].seen)

\* The entry of the k-th row: the account is read again for every row.
ExpireEntry(w, o, k) ==
  LET a == ledger[o[k]].acct
  IN  [acct |-> a, kind |-> "expire", amount |-> -sweep[w].seen[o[k]],
       after |-> Max0(balance[a] - Charge(w, a, {o[m] : m \in 1..k})),
       expires |-> Never, key |-> None]

\* The loop's writes, which become visible together when the sweep commits.
SweepCommit(w) ==
  /\ Rows(w) # {}
  /\ AccountsOf(w) \subseteq sweep[w].locked
  /\ \E o \in CursorOrders(w) :
       Write([k \in 1..Len(o) |-> ExpireEntry(w, o, k)],
             [k \in 1..Len(o) |-> 0],
             [i \in Entries |-> IF i \in Rows(w) THEN 0 ELSE remaining[i]],
             AccountsOf(w))
  /\ balance' = [a \in Accounts |-> Max0(balance[a] - Charge(w, a, Rows(w)))]
  /\ raced' = raced \cup
       {a \in Accounts : \E i \in RowsOf(w, a) : sweep[w].seen[i] # remaining[i]}
  /\ sweep' = [sweep EXCEPT ![w] = Asleep]
  /\ UNCHANGED <<now, pending>>

\* A crash, a statement timeout or the deadlock detector ends the transaction.
SweepAbort(w) ==
  /\ sweep[w] # Asleep
  /\ sweep' = [sweep EXCEPT ![w] = Asleep]
  /\ UNCHANGED <<ledger, remaining, balance, nextExpiry, now, pending, raced>>

Tick ==
  /\ now < Horizon
  /\ now' = now + 1
  /\ UNCHANGED <<ledger, remaining, balance, nextExpiry, pending, sweep, raced>>

Next ==
  \/ \E c \in Callers :
       \/ \E r \in Requests : Begin(c, r)
       \/ Collide(c)
       \/ \E life \in Lifetimes \cup {Never} : Credit(c, life)
       \/ Debit(c)
       \/ Refuse(c)
  \/ \E from, to \in Accounts, life \in Lifetimes \cup {Never} : Merge(from, to, life)
  \/ \E w \in Sweepers :
       SweepOpen(w) \/ SweepLock(w) \/ SweepCommit(w) \/ SweepAbort(w)
  \/ Tick

Spec == Init /\ [][Next]_vars

----------------------------------------------------------------------------
(* Properties.                                                             *)

\* Every variable keeps its type; every open lot is a credit, and a cursor row is
\* a row of the ledger.
TypeOK ==
  /\ ledger \in Seq(Entry)
  /\ remaining \in [Entries -> Nat]
  /\ \A i \in Entries : remaining[i] > 0 => ledger[i].kind \in CreditKinds
  /\ balance \in [Accounts -> Nat]
  /\ nextExpiry \in [Accounts -> Nat]
  /\ now \in 0..Horizon
  /\ pending \in [Callers -> [req : Requests \cup {None}, at : 0..Horizon]]
  /\ \A c \in Callers : pending[c].req = None => pending[c] = Idle
  /\ DOMAIN sweep = Sweepers
  /\ \A w \in Sweepers :
       /\ sweep[w] = [seen |-> sweep[w].seen, locked |-> sweep[w].locked]
       /\ sweep[w].seen \in [Rows(w) -> Nat]
       /\ Rows(w) \subseteq Entries
       /\ sweep[w].locked \in SUBSET Accounts
  /\ raced \in SUBSET Accounts

\* A request moves points at most once, however often it is sent and whoever else
\* sends it at the same moment (the retried POS tap of loyalty_ledger's comment).
OneEntryPerKey ==
  \A i, j \in Entries : ledger[i].key = ledger[j].key /\ ledger[i].key # None => i = j

\* The balance a customer can spend is always backed by open lots, so a debit
\* never runs out of lots before it has taken its full amount.
Solvent == \A a \in Accounts : balance[a] <= OpenCredit(a)

\* The two together, for any interleaving of callers and sweeps: no request is applied
\* twice and no customer spends what is not there.
OnceAndCovered == TypeOK /\ OneEntryPerKey /\ Solvent

\* Redemption and expiry agree to the unit: as long as no sweep has charged a
\* stale amount, the cached balance is exactly what the lots hold.
BooksBalance == \A a \in Accounts : a \notin raced => balance[a] = OpenCredit(a)

\* balance_after is a running total: every entry follows from the one before it
\* on the same account, a sweep clamps at zero, and the last one is the balance.
PreviousOf(k) == {i \in 1..k - 1 : ledger[i].acct = ledger[k].acct}
AfterOf(S) == IF S = {} THEN 0
              ELSE ledger[CHOOSE i \in S : \A j \in S : j <= i].after
RunningBalance ==
  /\ \A k \in Entries :
       ledger[k].after = Max0(AfterOf(PreviousOf(k)) + ledger[k].amount)
  /\ \A a \in Accounts :
       balance[a] = AfterOf({i \in Entries : ledger[i].acct = a})

\* The cached next expiry date, which the reminder jobs read instead of the lots,
\* is the date of the soonest-expiring open lot of the account.
NextExpiryExact == \A a \in Accounts : IsNextExpiry(ledger, remaining, a, nextExpiry[a])

\* What is stored to be read without the lots agrees with the ledger: balance_after,
\* the balance and the next expiry date.
CachesExact == RunningBalance /\ NextExpiryExact

\* The ledger implements PointsAccount: seen from outside, a request takes effect
\* in one step, once and only if it can be paid, and everything else only moves
\* or removes points.
Applied == {r \in Requests : KeyUsed(r)}
Account == INSTANCE PointsAccount WITH applied <- Applied
AppliesRequestsOnce == Account!Spec

\* A debit spends what would expire first: it never leaves a unit in a lot that
\* expires before one it has taken from.
Debits == Len(ledger') > Len(ledger) /\ ledger'[Len(ledger) + 1].kind \in DebitKinds
EarliestFirst ==
  [][Debits =>
       \A i, j \in Entries :
         /\ ledger[i].acct = ledger[j].acct
         /\ ledger[i].expires < ledger[j].expires
         /\ remaining'[j] < remaining[j]
         => remaining'[i] = 0]_vars
=============================================================================
