------------------------------ MODULE Initials ------------------------------
(***************************************************************************)
(* UserProfileModel.userNameToInitials, the text of the picture that is    *)
(* shown when the user has none.  The loop looks at the first character of *)
(* each word only (both branches of its inner loop break), and resorts to  *)
(* the placeholder "UP" INSIDE the loop, so that the placeholder's second  *)
(* letter can survive next to an initial that is found later.              *)
(*                                                                         *)
(* A word is represented by its first character: a letter, Other for any   *)
(* other character, or Blank for the empty word that two separators, or    *)
(* one at either end, leave behind.                                        *)
(***************************************************************************)
EXTENDS Naturals, Sequences

\* The String both initials start with.
Empty == ""

CONSTANTS
  Letters,    \* one-character strings
  Other,      \* some character that is no letter
  Blank,      \* no character at all
  MaxWords    \* bound: the length of a name

ASSUME InitialsAssumption ==
  /\ Other \notin Letters /\ Blank \notin Letters
  /\ Empty \notin Letters
  /\ MaxWords \in Nat \ {0}

VARIABLES
  words,          \* the name, separated
  item,           \* the word the loop visits next
  firstInital,    \* Empty until a word or the placeholder sets it
  secondInitial,
  found           \* how many of the two "Found" markers are set

initialsVars == <<words, item, firstInital, secondInitial, found>>

\* components(separatedBy:) never returns an empty array.
Names == UNION {[1..n -> Letters \cup {Other, Blank}] : n \in 1..MaxWords}

InitialsTypeOK ==
  /\ words \in Names
  /\ item \in 1..Len(words) + 1
  /\ firstInital \in Letters \cup {Empty, "U"}
  /\ secondInitial \in Letters \cup {Empty, "P"}
  /\ found \in 0..2

InitialsInit ==
  /\ words \in Names
  /\ item = 1
  /\ firstInital = Empty /\ secondInitial = Empty /\ found = 0

-----------------------------------------------------------------------------
PlaceholderForEither(f, s) == IF f = Empty \/ s = Empty THEN <<"U", "P">> ELSE <<f, s>>

\* The test after each word.
Placeholder(f, s) == IF f = Empty /\ s = Empty THEN <<"U", "P">> ELSE <<f, s>>

\* The initials after a word that begins with c.
Found(c) ==
  IF c \notin Letters \/ found = 2 THEN <<firstInital, secondInitial>>
  ELSE IF found = 0 THEN <<c, secondInitial>>
  ELSE <<firstInital, c>>

VisitWord ==
  /\ item <= Len(words)
  /\ LET c == words[item]
         i == Placeholder(Found(c)[1], Found(c)[2]) IN
     /\ firstInital' = i[1]
     /\ secondInitial' = i[2]
     /\ found' = IF c \in Letters /\ found < 2 THEN found + 1 ELSE found
  /\ item' = item + 1
  /\ UNCHANGED words

InitialsNext == VisitWord

InitialsSpec == InitialsInit /\ [][InitialsNext]_initialsVars

-----------------------------------------------------------------------------
(* Properties.                                                             *)

\* The words seen so far that begin with a letter, by their place.
Leading == {i \in 1..item - 1 : words[i] \in Letters}

\* After every word the two initials are those of the words visited so far:
\* words that begin with no letter are skipped, wherever they stand, and the
\* placeholder never displaces an initial.  One initial alone is followed by
\* the placeholder's P exactly if the name does not begin with a letter.  The
\* result is never empty.
InitialsOfWordsSeen ==
  /\ InitialsTypeOK
  /\ item > 1 =>
       /\ IF Leading = {} THEN firstInital = "U"
          ELSE \E i \in Leading : firstInital = words[i] /\ \A j \in Leading : i <= j
       /\ IF \A i, j \in Leading : i = j
          THEN secondInitial = IF words[1] \in Letters THEN Empty ELSE "P"
          ELSE \E h, i \in Leading : /\ h < i /\ secondInitial = words[i]
                                     /\ \A j \in Leading : j = h \/ i <= j

-----------------------------------------------------------------------------
(* The inductive invariant behind the theorems of ProfilePictureProofs.    *)

\* The "Found" markers tell none, one and more leading letters apart, and
\* nothing is set before the first word.
MarkersCount ==
  /\ found = 0 <=> Leading = {}
  /\ found < 2 <=> \A i, j \in Leading : i = j
  /\ item = 1 => firstInital = Empty /\ secondInitial = Empty

InitialsIInv ==
  /\ InitialsOfWordsSeen
  /\ MarkersCount

=============================================================================
