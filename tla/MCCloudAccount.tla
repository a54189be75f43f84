--------------------------- MODULE MCCloudAccount ---------------------------
(* Small instances of CloudAccount for TLC.                                 *)
EXTENDS CloudAccount, TLC

CONSTANTS a1, a2, r1, w1, w2, k1, k2, t1, t2

OneAccount == {a1}
TwoAccounts == {a1, a2}
OneRequest == {r1}
OneWriter == {w1}
TwoWriters == {w1, w2}
OneKey == {k1}
TwoKeys == {k1, k2}
OneTicker == {t1}
TwoTickers == {t1, t2}
KeySwaps == Permutations(TwoKeys)

OneOrTwo == {1, 2}
OneOnly == {1}
(* Prices in halves of a unit: closes of 5.5 and 6.5. *)
Both == {[action |-> "BUY", price |-> 11, proposed |-> 2],
         [action |-> "SELL", price |-> 13, proposed |-> 0]}
BuyOnly == {[action |-> "BUY", price |-> 11, proposed |-> 1]}

Empty == [cash |-> 12, starting |-> 12, positions |-> {}]
(* Three shares whose basis does not divide by three, and is a half after   *)
(* one is sold; a SHORT, which no paper action is priced beside.            *)
Uneven == [cash |-> 6, starting |-> 30,
           positions |-> {[ticker |-> t1, dir |-> "LONG", qty |-> 3, basis |-> 22]}]
Mixed == [cash |-> 6, starting |-> 30,
          positions |-> {[ticker |-> t1, dir |-> "LONG", qty |-> 1, basis |-> 4],
                         [ticker |-> t2, dir |-> "SHORT", qty |-> 1, basis |-> 5]}]
EmptyForm == {Empty}
AllForms == {Empty, Uneven, Mixed}
=============================================================================
