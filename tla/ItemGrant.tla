------------------------------ MODULE ItemGrant ------------------------------
(***************************************************************************)
(* An item given from the control channel (ItemGrant): bytes of the save    *)
(* info set one at a time, each by reading and writing the word it is in,   *)
(* while the title picks items up and the player puts them on buttons.      *)
(***************************************************************************)
EXTENDS Integers, Sequences

CONSTANTS
  Givers,      \* the control channel's clients: no lock keeps one's request from another's
  Items,       \* inventory slots, and what a request may name
  Counted,     \* those whose item has a count and a maximum
  GrantButtons,\* the buttons of one word of the save info
  MaxGrants, MaxPickups  \* bounds: requests, and the title's own changes

VARIABLES
  save,    \* the words: got flags, item numbers, button slots, counts, maxima
  grant,   \* ItemGrant::grant's place and locals, by client
  grants   \* history: what was answered as given, whether a word's write undid another's

grantVars == <<save, grant, grants>>

None == "none"
Kinds == {"got", "items", "select", "count", "maximum"}
Empty == [got |-> [i \in Items |-> FALSE], items |-> [i \in Items |-> FALSE],
          select |-> [b \in GrantButtons |-> None],
          count |-> [i \in Items |-> 0], maximum |-> [i \in Items |-> 0]]
Amount == 1

GrantInit ==
  /\ save = Empty
  /\ grant = [c \in Givers |-> [left |-> <<>>, word |-> <<>>, item |-> None, button |-> None]]
  /\ grants = [given |-> {}, clobbers |-> FALSE, asks |-> 0, pickups |-> 0]

\* The bytes a grant sets, in order: [kind of word, byte of it, value].
Byte(word, at, value) == [word |-> word, at |-> at, value |-> value]
BytesToSet(item, button) ==
  <<Byte("got", item, TRUE), Byte("items", item, TRUE), Byte("select", button, item)>>
    \o (IF item \in Counted THEN <<Byte("count", item, Amount), Byte("maximum", item, Amount)>> ELSE <<>>)

\* POST /item: refused where the save info does not read.
PostItem(c, item, button) ==
  /\ grant[c].left = <<>> /\ grants.asks < MaxGrants
  /\ grant' = [grant EXCEPT ![c] = [left |-> BytesToSet(item, button), word |-> <<>>,
                                    item |-> item, button |-> button]]
  /\ grants' = [grants EXCEPT !.asks = @ + 1]
  /\ UNCHANGED save

\* setByte's read of the word, and its write of the word with the byte in it; either may fail.
ReadsWord(c) ==
  /\ grant[c].left # <<>> /\ grant[c].word = <<>>
  /\ grant' = [grant EXCEPT ![c].word = <<save[Head(grant[c].left).word]>>]
  /\ UNCHANGED <<save, grants>>

\* A button that now names another slot is no longer the one given it, or about to be.
Off(g, button) == IF g.button = button THEN [g EXCEPT !.button = None] ELSE g

WritesWord(c) ==
  LET byte == Head(grant[c].left)
      with(word) == [word EXCEPT ![byte.at] = byte.value]
      taken == IF byte.word = "select" THEN byte.at ELSE None
      done == IF Len(grant[c].left) = 1 THEN {[item |-> grant[c].item, button |-> grant[c].button]} ELSE {}
  IN /\ grant[c].word # <<>>
     /\ save' = [save EXCEPT ![byte.word] = with(grant[c].word[1])]
     /\ grant' = [d \in Givers |-> IF d = c THEN [grant[c] EXCEPT !.left = Tail(@), !.word = <<>>]
                                   ELSE Off(grant[d], taken)]
     /\ grants' = [grants EXCEPT !.clobbers = @ \/ with(grant[c].word[1]) # with(save[byte.word]),
                                 !.given = {Off(g, taken) : g \in @} \cup done]

GrantFails(c) ==
  /\ grant[c].left # <<>>
  /\ grant' = [grant EXCEPT ![c].left = <<>>, ![c].word = <<>>]
  /\ UNCHANGED <<save, grants>>

\* The player picks an item up, or puts one it has on a button.
PicksUp(item) ==
  /\ grants.pickups < MaxPickups
  /\ save' = [save EXCEPT !.got[item] = TRUE, !.items[item] = TRUE]
  /\ grants' = [grants EXCEPT !.pickups = @ + 1]
  /\ UNCHANGED grant

PutsOnButton(item, button) ==
  /\ grants.pickups < MaxPickups /\ save.items[item]
  /\ save' = [save EXCEPT !.select[button] = item]
  /\ grant' = [c \in Givers |-> Off(grant[c], button)]
  /\ grants' = [grants EXCEPT !.pickups = @ + 1, !.given = {Off(g, button) : g \in @}]

GrantNext ==
  \/ \E c \in Givers, item \in Items, button \in GrantButtons : PostItem(c, item, button)
  \/ \E c \in Givers : ReadsWord(c) \/ WritesWord(c) \/ GrantFails(c)
  \/ \E item \in Items : PicksUp(item)
  \/ \E item \in Items, button \in GrantButtons : PutsOnButton(item, button)
-----------------------------------------------------------------------------
\* A button never names a slot with no item in it, at any moment of a grant, of two at
\* once or after one that failed; only a change lost between a word's read and its write
\* (the title's, or the other grant's: the two are under no lock) could.
ButtonsHaveTheirItem ==
  ~grants.clobbers => \A b \in GrantButtons : save.select[b] # None => save.items[save.select[b]]

\* "Item given" is the item, its flag, its count and its button, with the others' kept.
GivenIsGiven ==
  ~grants.clobbers => \A g \in grants.given :
    /\ save.got[g.item] /\ save.items[g.item] /\ (g.button # None => save.select[g.button] = g.item)
    /\ g.item \in Counted => save.count[g.item] = Amount /\ save.maximum[g.item] = Amount
=============================================================================
