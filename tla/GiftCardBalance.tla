--------------------------- MODULE GiftCardBalance ---------------------------
(***************************************************************************)
(* Gift cards and their transactions: issue_gift_card and void_gift_card   *)
(* of 000013, redeem_gift_card of 000010.  Each is one database            *)
(* transaction; its key is looked up before the card is locked, and the    *)
(* unique index of gift_card_transactions has the last word.               *)
(***************************************************************************)
EXTENDS UnitSums

CONSTANTS
  Cards,   \* rows of gift_cards
  Sales,   \* keys of issues (stripe:<session>)
  Taps,    \* keys of redemptions
  Asked,   \* what a redemption asks for, 0 for the whole card
  Value,   \* what is paid for a card
  Tills    \* redemptions that can overlap

ASSUME CardAssumption ==
  /\ IsFiniteSet(Taps) /\ IsFiniteSet(Cards)
  /\ "none" \notin Cards \cup Sales \cup Taps
  /\ Asked \in [Taps -> Nat] /\ Value \in Nat \ {0}

VARIABLES
  status,     \* gift_cards.status, "absent" before the card is issued
  remaining,  \* gift_cards.remaining_value
  sale,       \* per card, the key of its issue
  spent,      \* per redemption key, the amount of its transaction, 0 if there is none
  spentOn,    \* and its card
  voided,     \* per card, the amount of its void
  expired,    \* cards past their expires_at
  till        \* per till, the redemption whose key it did not find

cardVars == <<status, remaining, sale, spent, spentOn, voided, expired, till>>

Closed == [key |-> "none", card |-> "none"]

CardInit ==
  /\ status = [c \in Cards |-> "absent"]
  /\ remaining = [c \in Cards |-> 0]
  /\ sale = [c \in Cards |-> "none"]
  /\ spent = [k \in Taps |-> 0]
  /\ spentOn = [k \in Taps |-> "none"]
  /\ voided = [c \in Cards |-> 0]
  /\ expired = {}
  /\ till = [t \in Tills |-> Closed]

Sold(s) == \E c \in Cards : sale[c] = s

\* issue_gift_card after a lookup that found nothing: the card and its transaction.
Issue(s, c) ==
  /\ status[c] = "absent" /\ ~Sold(s)
  /\ status' = [status EXCEPT ![c] = "active"]
  /\ remaining' = [remaining EXCEPT ![c] = Value]
  /\ sale' = [sale EXCEPT ![c] = s]
  /\ UNCHANGED <<spent, spentOn, voided, expired, till>>

\* redeem_gift_card: a key that is found answers with the first redemption.
Lookup(t, k, c) ==
  /\ till[t] = Closed /\ spent[k] = 0 /\ status[c] # "absent"
  /\ till' = [till EXCEPT ![t] = [key |-> k, card |-> c]]
  /\ UNCHANGED <<status, remaining, sale, spent, spentOn, voided, expired>>

\* Mutant: a redemption for more than the card holds is not cut down to it.
InFull(k, c) == IF Asked[k] = 0 THEN remaining[c] ELSE Asked[k]
Spend(k, c) == IF Asked[k] = 0 \/ Asked[k] > remaining[c] THEN remaining[c] ELSE Asked[k]

Redeemable(c) == status[c] = "active" /\ c \notin expired /\ remaining[c] > 0

\* From the lock on the card to the commit.
Redeem(t) ==
  LET k == till[t].key
      c == till[t].card
      left == remaining[c] - Spend(k, c)
  IN  /\ till[t] # Closed /\ Redeemable(c) /\ spent[k] = 0
      /\ remaining' = [remaining EXCEPT ![c] = left]
      /\ status' = [status EXCEPT ![c] = IF left <= 0 THEN "depleted" ELSE @]
      /\ spent' = [spent EXCEPT ![k] = Spend(k, c)]
      /\ spentOn' = [spentOn EXCEPT ![k] = c]
      /\ till' = [till EXCEPT ![t] = Closed]
      /\ UNCHANGED <<sale, voided, expired>>

\* The card is void, used up or expired, or the key was taken in the meantime: all of it
\* is rolled back, the status "expired" that was just written included.
Refuse(t) ==
  /\ till[t] # Closed
  /\ ~Redeemable(till[t].card) \/ spent[till[t].key] # 0
  /\ till' = [till EXCEPT ![t] = Closed]
  /\ UNCHANGED <<status, remaining, sale, spent, spentOn, voided, expired>>

\* void_gift_card.
Void(c) ==
  /\ status[c] \notin {"absent", "void"}
  /\ status' = [status EXCEPT ![c] = "void"]
  /\ remaining' = [remaining EXCEPT ![c] = 0]
  /\ voided' = [voided EXCEPT ![c] = remaining[c]]
  /\ UNCHANGED <<sale, spent, spentOn, expired, till>>

\* Time.
PassExpiry(c) ==
  /\ status[c] # "absent" /\ c \notin expired
  /\ expired' = expired \cup {c}
  /\ UNCHANGED <<status, remaining, sale, spent, spentOn, voided, till>>

CardNext ==
  \/ \E s \in Sales, c \in Cards : Issue(s, c)
  \/ \E t \in Tills : Redeem(t) \/ Refuse(t) \/ \E k \in Taps, c \in Cards : Lookup(t, k, c)
  \/ \E c \in Cards : Void(c) \/ PassExpiry(c)

CardSpec == CardInit /\ [][CardNext]_cardVars

----------------------------------------------------------------------------
(* Properties.                                                             *)

CardTypeOK ==
  /\ status \in [Cards -> {"absent", "active", "depleted", "void"}]
  /\ remaining \in [Cards -> Nat] /\ voided \in [Cards -> Nat]
  /\ sale \in [Cards -> Sales \cup {"none"}]
  /\ spent \in [Taps -> Nat] /\ spentOn \in [Taps -> Cards \cup {"none"}]
  /\ expired \subseteq Cards
  /\ till \in [Tills -> [key : Taps \cup {"none"}, card : Cards \cup {"none"}]]

TapsOf(c) == {k \in Taps : spentOn[k] = c}
Issued(c) == IF status[c] = "absent" THEN 0 ELSE Value

\* A card holds what its transactions leave, never less than nothing, and is active
\* exactly as long as there is something on it: for any interleaving of redemptions,
\* replays, voids and expiry.
CardsAddUp ==
  /\ CardTypeOK
  /\ \A c \in Cards : /\ remaining[c] + Sum(TapsOf(c), spent) + voided[c] = Issued(c)
                      /\ status[c] = "active" <=> remaining[c] > 0
=============================================================================
