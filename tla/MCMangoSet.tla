------------------------------ MODULE MCMangoSet ------------------------------
(* An instance of MangoSet for TLC: widths of 3, 4 and 6 bits stand for 32,  *)
(* 53 and 64, and the numbers are those at their limits.                     *)
EXTENDS MangoSet

SomeLayouts == <<"T", "S", "K">>
SomeNames == [T |-> "Tile", S |-> "Scroller", K |-> "Deck", D |-> "Deck"]
SomeLower == [T |-> "t", S |-> "s", K |-> "k", D |-> "d",
              Tile |-> "tile", Scroller |-> "scroller", Deck |-> "deck", Grid |-> "grid"]

Numbers == {0, 1, 6, 7, 8, 15, 17, 31, 32, 63, 64, 70}

Plain(n)  == <<"json", IntegerValue(n)>>
Fields(f) == <<"json", Object(f)>>

Words ==
  {Plain(n) : n \in Numbers}
    \cup {<<"digits", n>> : n \in {7, 8, 33}}
    \cup {<<"word", "True">>, <<"json", FloatValue(4)>>}
    \cup {Fields([tags |-> IntegerValue(n)]) : n \in {5, 8}}

SomeSets ==
  [via : {"msx"}, key : {"tags", "client_tags", "layout"}, word : Words]
    \cup [via : {"copy"}, key : {"tags", "client_tags", "layout"},
          word : {Plain(n) : n \in {-1, 7, 8, 33}} \cup {Fields([tags |-> IntegerValue(6)])}]
    \cup [via : {"script"}, key : {"tags", "layout"},
          word : {<<"i64", n>> : n \in {-1, 7, 8}} \cup {<<"char", 0>>}]
    \cup [via : {"msx"}, key : {"tags"},
          word : {Fields([tagmask |-> IntegerValue(n), toggle |-> Truth(TRUE)]) : n \in {5, 9}}]
    \cup [via : {"msx", "copy"}, key : {"client_tags"},
          word : {Fields([and_tags |-> IntegerValue(n), xor_tags |-> IntegerValue(3)]) : n \in {6, 8}}]
    \cup [via : {"msx"}, key : {"tags", "client_tags"},
          word : {Fields([tags |-> IntegerValue(5), tagmask |-> IntegerValue(2)]),
                  Fields([tags |-> IntegerValue(4), and_tags |-> IntegerValue(3), xor_tags |-> IntegerValue(1)])}]
    \cup [via : {"script"}, key : {"tags", "client_tags"},
          word : {<<"map", [tags |-> <<"i64", n>>, toggle |-> Truth(TRUE)]>> : n \in {3, 8}}]
    \cup [via : {"msx"}, key : {"layout_name"},
          word : {<<"word", w>> : w \in {"t", "Scroller", "D", "deck", "Grid"}}]
=============================================================================
