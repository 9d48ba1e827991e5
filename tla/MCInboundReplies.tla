--------------------------- MODULE MCInboundReplies ---------------------------
(* InboundReplies with two pollers, one enrolled recipient, a stranger who *)
(* answers in the recipient's thread, and every pair of e-mails.           *)
EXTENDS InboundReplies

CONSTANTS w1, w2, alice, bob, thread, optOut, noThanks, tellMore, strangerOptOut, garbled,
          toAlice

EmailSet == {optOut, noThanks, tellMore, strangerOptOut, garbled}
SenderOf == [e \in EmailSet |-> IF e = strangerOptOut THEN bob ELSE alice]
ThreadOf == [e \in EmailSet |-> thread]
ClassOf == [e \in EmailSet |->
              CASE e \in {optOut, strangerOptOut} -> "unsubscribe"
                [] e = noThanks -> "negative"
                [] e = tellMore -> "interested"
                [] e = garbled -> "other"]
RecipientOf == [s \in Sends |-> alice]
==============================================================================
