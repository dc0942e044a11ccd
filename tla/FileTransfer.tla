---------------------------- MODULE FileTransfer ----------------------------
(***************************************************************************)
(* What a transfer over WebRTC promises its two users, without the         *)
(* protocol that brings it about: nobody is asked before both ends have    *)
(* accepted each other, nothing moves that the receiving user did not      *)
(* select, the files come one at a time with every chunk in its place, and *)
(* a file ends at the receiver only with all that its sender gave.         *)
(***************************************************************************)
EXTENDS Naturals, FiniteSets

CONSTANTS
  End,    \* the two ends
  File,
  None

VARIABLES
  accepted,  \* the ends that accept the other one: its token and its PIN
  asked,     \* the receiving user sees the list of files
  granted,   \* the files that user selected
  given,     \* chunks of each file that the sending end has put on the channel
  whole,     \* files the sending end is through with
  open,      \* the file the receiving end takes chunks for
  got,       \* chunks of each file the receiving end has handed to its user
  answered   \* files whose outcome the receiving end has reported

vars == <<accepted, asked, granted, given, whole, open, got, answered>>

Init ==
  /\ accepted = {} /\ asked = FALSE /\ granted = {}
  /\ given = [f \in File |-> 0] /\ whole = {}
  /\ open = None /\ got = [f \in File |-> 0] /\ answered = {}

Accept(e) ==
  /\ accepted' = accepted \cup {e}
  /\ UNCHANGED <<asked, granted, given, whole, open, got, answered>>

Ask ==
  /\ accepted = End
  /\ asked' = TRUE
  /\ UNCHANGED <<accepted, granted, given, whole, open, got, answered>>

Grant ==
  /\ asked /\ granted = {}
  /\ granted' \in SUBSET File
  /\ UNCHANGED <<accepted, asked, given, whole, open, got, answered>>

\* The sending end works on one file at a time.
Give(f) ==
  /\ f \in granted \ whole
  /\ \A g \in File \ {f} : given[g] > 0 => g \in whole
  /\ given' = [given EXCEPT ![f] = @ + 1]
  /\ UNCHANGED <<accepted, asked, granted, whole, open, got, answered>>

Complete(f) ==
  /\ f \in granted \ whole
  /\ whole' = whole \cup {f}
  /\ UNCHANGED <<accepted, asked, granted, given, open, got, answered>>

Begin(f) ==
  /\ f \in granted \ answered /\ open = None
  /\ open' = f
  /\ UNCHANGED <<accepted, asked, granted, given, whole, got, answered>>

Take ==
  /\ open # None /\ got[open] < given[open]
  /\ got' = [got EXCEPT ![open] = @ + 1]
  /\ UNCHANGED <<accepted, asked, granted, given, whole, open, answered>>

Finish ==
  /\ open \in whole /\ got[open] = given[open]
  /\ open' = None
  /\ UNCHANGED <<accepted, asked, granted, given, whole, got, answered>>

\* The receiving end gives up: what it was taking stays a fragment, without answer.
Abandon ==
  /\ open # None /\ open' = None
  /\ UNCHANGED <<accepted, asked, granted, given, whole, got, answered>>

Answer(f) ==
  /\ f \in (granted \cap whole) \ answered /\ f # open /\ got[f] = given[f]
  /\ answered' = answered \cup {f}
  /\ UNCHANGED <<accepted, asked, granted, given, whole, open, got>>

Next ==
  \/ \E e \in End : Accept(e)
  \/ Ask \/ Grant \/ Take \/ Finish \/ Abandon
  \/ \E f \in File : Give(f) \/ Complete(f) \/ Begin(f) \/ Answer(f)
Spec == Init /\ [][Next]_vars
=============================================================================
