------------------------------- MODULE Claims -------------------------------
(***************************************************************************)
(* What an account's e-mail address promises to the rest of the program    *)
(* (alert mails, automatic linking): an address is first claimed, and      *)
(* becomes proven only for the account that claimed it, when the link sent *)
(* to it is followed, or at once when an identity provider vouches for it. *)
(* An account whose claim was mishandled is lost: nothing is promised of   *)
(* it any more.  Identity.tla implements this specification.               *)
(***************************************************************************)

CONSTANTS Accounts, Emails, None

VARIABLE claim      \* per account: which address, and how far it got

Claim == [kind : {"none", "claimed", "proven", "vouched", "lost"}, email : Emails \cup {None}]

NoClaim == [kind |-> "none", email |-> None]

\* A new account, or one whose address was dropped, has no claim.
Drop(a) == claim' = [claim EXCEPT ![a] = NoClaim]

\* An address belongs to one account.
Free(a, e) == \A b \in Accounts \ {a} : claim[b].email # e

\* The owner names an address, unless a provider manages it: whatever was proven before is void.
Propose(a, e) ==
  /\ claim[a].kind # "vouched" /\ Free(a, e)
  /\ claim' = [claim EXCEPT ![a] = [kind |-> "claimed", email |-> e]]

\* The link is followed: the proven address is the claimed one.
Prove(a, e) ==
  /\ claim[a] = [kind |-> "claimed", email |-> e]
  /\ claim' = [claim EXCEPT ![a] = [kind |-> "proven", email |-> e]]

\* A provider vouches for the address.
Vouch(a, e) == Free(a, e) /\ claim' = [claim EXCEPT ![a] = [kind |-> "vouched", email |-> e]]

\* The account's claim was mishandled.
Lose(a) == claim' = [claim EXCEPT ![a] = [kind |-> "lost", email |-> None]]

\* A merge: the target takes the vouched address over, the source is gone.
Hand(a, b, e) ==
  /\ claim[a] = [kind |-> "vouched", email |-> e]
  /\ claim' = [claim EXCEPT ![a] = NoClaim, ![b] = [kind |-> "vouched", email |-> e]]

\* A merge that mishandled its target.
HandLost(a, b) ==
  claim' = [claim EXCEPT ![a] = NoClaim, ![b] = [kind |-> "lost", email |-> None]]

Init == claim = [a \in Accounts |-> NoClaim]

Move(a) ==
  /\ claim[a].kind # "lost"
  /\ \/ Drop(a) \/ Lose(a)
     \/ \E e \in Emails : Propose(a, e) \/ Prove(a, e) \/ Vouch(a, e)

Next == \E a \in Accounts :
          \/ Move(a)
          \/ \E b \in Accounts \ {a} :
               \/ HandLost(a, b)
               \/ claim[b].kind # "lost" /\ \E e \in Emails : Hand(a, b, e)

Spec == Init /\ [][Next]_claim
=============================================================================
