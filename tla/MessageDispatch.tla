--------------------------- MODULE MessageDispatch ---------------------------
(***************************************************************************)
(* dispatchMessage of lib/messaging/dispatch.ts: gates read from the       *)
(* database, a row inserted under the message's idempotency key, a call to *)
(* the channel's provider, and the row updated with its answer.  Who calls *)
(* it, and with which keys, is for the specifications that extend this one *)
(* (CampaignSend, AutomationRun).                                          *)
(***************************************************************************)
EXTENDS Integers, FiniteSets, JobLease

CONSTANTS
  Keys,         \* messages.idempotency_key
  CustomerOf,   \* whom a message is for
  Channels,     \* channels tried for it: 1, or more for "auto"
  WeeklyCap,    \* settings.weekly_message_cap (0, which is no cap, is left out)
  MaxUncounted  \* bound: no count fails once this many customers are uncounted

ASSUME DispatchAssumption ==
  /\ IsFiniteSet(Keys) /\ Channels \in [Keys -> Nat \ {0}]
  /\ WeeklyCap \in Nat \ {0} /\ MaxUncounted \in Nat

VARIABLES
  message,     \* messages.status by key, "none" while there is no row
  delivered,   \* history: how often the customer got the message
  sender,      \* per worker, where it is in dispatchMessage
  crowded,     \* history: customers with two dispatches past the frequency cap
  uncounted    \* history: customers let past it by a count that failed or missed a message

msgVars == <<message, delivered, sender, crowded, uncounted>>

NoSend == [at |-> "idle", key |-> "none", left |-> 0]

DispatchInit ==
  /\ message = [k \in Keys |-> "none"]
  /\ delivered = [k \in Keys |-> 0]
  /\ sender = [w \in Workers |-> NoSend]
  /\ crowded = {} /\ uncounted = {}

At(w, phase) == sender[w].at = phase
GoTo(w, phase) == sender' = [sender EXCEPT ![w].at = phase]
Leave(w) == sender' = [sender EXCEPT ![w] = NoSend]

\* The next channel, with the same key, or the end of the loop.
NextChannel(w) ==
  LET s == sender[w]
      next == [at |-> "gates", key |-> s.key, left |-> s.left - 1]
  IN  sender' = [sender EXCEPT ![w] = IF s.left > 1 THEN next ELSE NoSend]

\* dispatchMessage is called.
Dispatch(w, k) ==
  /\ At(w, "idle")
  /\ sender' = [sender EXCEPT ![w] = [at |-> "gates", key |-> k, left |-> Channels[k]]]
  /\ UNCHANGED <<message, delivered, crowded, uncounted>>

SentTo(c) == {k \in Keys : CustomerOf[k] = c /\ message[k] = "sent"}
DeliveredTo(c) == {k \in Keys : CustomerOf[k] = c /\ delivered[k] > 0}
PastGates(w, c) == sender[w].at \in {"insert", "send", "record"} /\ CustomerOf[sender[w].key] = c

\* frequencyCapReached.  Mutant: one too many.
OneMore(c) == Cardinality(SentTo(c)) > WeeklyCap
CapReached(c) == Cardinality(SentTo(c)) >= WeeklyCap

\* Consent, suppression, templates (the next channel is tried), the allowance and
\* quiet hours (the message is skipped) can each stop a message, whatever the cap says.
\* A count that fails is taken for 0, which matters to somebody at the cap.
Gates(w) ==
  LET c == CustomerOf[sender[w].key]
  IN  /\ At(w, "gates")
      /\ \/ /\ GoTo(w, "insert")
            /\ crowded' = crowded \cup {d \in {c} : \E u \in Workers \ {w} : PastGates(u, d)}
            /\ \/ /\ ~CapReached(c)
                  /\ uncounted' = uncounted \cup {d \in {c} : ~(DeliveredTo(d) \subseteq SentTo(d))}
               \/ /\ CapReached(c) /\ Cardinality(uncounted) < MaxUncounted
                  /\ uncounted' = uncounted \cup {c}
         \/ (NextChannel(w) \/ Leave(w)) /\ UNCHANGED <<crowded, uncounted>>
  /\ UNCHANGED <<message, delivered>>

\* Mutant: no key, so that a second row is inserted.
NoKey(k) == TRUE
KeyFree(k) == message[k] = "none"

\* The insert; a unique violation is a duplicate, another error ends the dispatch too.
Insert(w) ==
  /\ At(w, "insert")
  /\ \/ /\ KeyFree(sender[w].key)
        /\ message' = [message EXCEPT ![sender[w].key] = "queued"]
        /\ GoTo(w, "send")
     \/ Leave(w) /\ UNCHANGED message
  /\ UNCHANGED <<delivered, crowded, uncounted>>

\* The provider's answer: a call that times out after the provider has acted reports a
\* failure, and the process can die before the answer is recorded (see Die).
Send(w) ==
  /\ At(w, "send")
  /\ \E answer \in {"sent", "failed"}, got \in {0, 1} :
       /\ answer = "sent" => got = 1
       /\ delivered' = [delivered EXCEPT ![sender[w].key] = @ + got]
       /\ sender' = [sender EXCEPT ![w].at = IF answer = "sent" THEN "record" ELSE "refuse"]
  /\ UNCHANGED <<message, crowded, uncounted>>

\* The update, whose error is not looked at.
Record(w) ==
  LET k == sender[w].key
  IN  \/ /\ At(w, "record") /\ Leave(w)
         /\ message' = [message EXCEPT ![k] = "sent"] \/ UNCHANGED message
         /\ UNCHANGED <<delivered, crowded, uncounted>>
      \/ /\ At(w, "refuse") /\ NextChannel(w)
         /\ message' = [message EXCEPT ![k] = "failed"] \/ UNCHANGED message
         /\ UNCHANGED <<delivered, crowded, uncounted>>

DispatchStep(w) == Gates(w) \/ Insert(w) \/ Send(w) \/ Record(w)

\* The worker dies in the middle of it.
Die(w) == Leave(w) /\ UNCHANGED <<message, delivered, crowded, uncounted>>

----------------------------------------------------------------------------
(* Properties.                                                             *)

DispatchTypeOK ==
  /\ message \in [Keys -> {"none", "queued", "sent", "failed"}]
  /\ delivered \in [Keys -> Nat]
  /\ \A w \in Workers : sender[w].at \in {"idle", "gates", "insert", "send", "record", "refuse"}
  /\ crowded \cup uncounted \subseteq {CustomerOf[k] : k \in Keys}

\* Nobody gets a message twice: not when the job is run again after a crash, a
\* timeout or a lost update, not from two workers, and not over two channels.
DeliveredOnce == DispatchTypeOK /\ \A k \in Keys : delivered[k] <= 1

\* Nobody gets more messages in a week than the merchant allows, as far as the counts
\* can see them: unless two dispatches to the customer were past the count at once, a
\* count failed, or it missed a message that had been delivered and was not on record as
\* sent (its worker died, its update was lost, or the provider's answer was).
WithinCap ==
  \A c \in {CustomerOf[k] : k \in Keys} \ (crowded \cup uncounted) :
    Cardinality(DeliveredTo(c)) <= WeeklyCap
=============================================================================
