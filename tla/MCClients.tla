------------------------------- MODULE MCClients -------------------------------
(***************************************************************************)
(* The encoder, the navigation and the harness for TLC.  The three share   *)
(* no variable, so each is run while the other two are at their start: an  *)
(* interleaving of them would only multiply the states.                    *)
(***************************************************************************)
EXTENDS QrCode, AccountNav, WalletHarness

CONSTANTS r1, r2, r3, h1, h2, h3, k1, k2, k3

-----------------------------------------------------------------------------
(* Texts that end where the cases of the encoder end.                      *)
Data(mode, n) ==
  [mode |-> mode,
   chars |-> [i \in 1 .. n |-> (i * 7 + 3) % [Numeric |-> 10, Alphanumeric |-> 45, Byte |-> 128][mode]]]

Wish(type, level, dataList, later) ==
  [typeNumber |-> type, level |-> level, dataList |-> dataList, later |-> later,
   wanted |-> FALSE, image |-> [cellSize |-> 0, margin |-> NoMargin]]

AsImage(wish, size0, margin0) == [wish EXCEPT !.wanted = TRUE, !.image = [cellSize |-> size0, margin |-> margin0]]

Wrong == [mode |-> "Numeric", chars |-> <<1, Illegal>>]

Texts ==
  {AsImage(Wish(0, "M", <<Data("Byte", 1)>>, <<>>), 1, 2),
   AsImage(Wish(0, "M", <<Data("Byte", 15)>>, <<>>), 1, 2),
   Wish(0, "M", <<Data("Byte", 14)>>, <<>>),
   Wish(0, "M", <<Data("Numeric", 34)>>, <<>>),
   Wish(0, "Q", <<Data("Alphanumeric", 15)>>, <<>>),
   Wish(0, "M", <<Data("Byte", 150)>>, <<>>),
   Wish(7, "H", <<Data("Alphanumeric", 9), Data("Byte", 5)>>, <<>>),
   Wish(0, "L", <<Data("Numeric", 7)>>, <<Data("Byte", 4)>>),
   Wish(0, "L", <<Data("Numeric", 7)>>, <<Data("Byte", 14)>>),
   Wish(0, "M", <<Wrong>>, <<>>),
   Wish(1, "M", <<Wrong>>, <<>>)}

MCRequests == Texts \cup {Wish(type, "H", <<Data("Byte", 1300)>>, <<>>) : type \in 0 .. 40}

-----------------------------------------------------------------------------
EncoderRests == pc = "make" /\ request = Wish(1, "M", <<Wrong>>, <<>>)
NavRests == NavInit /\ route = r1 /\ links = {}
HarnessRests == HarnessInit /\ published = RealmKeys

ClientsInit ==
  /\ Init /\ NavInit /\ HarnessInit
  /\ \/ NavRests /\ HarnessRests
     \/ EncoderRests /\ HarnessRests
     \/ EncoderRests /\ NavRests

Encode == NavRests /\ HarnessRests /\ Next /\ UNCHANGED <<navVars, harnessVars>>
Browse == EncoderRests /\ HarnessRests /\ NavNext /\ UNCHANGED <<vars, harnessVars>>
Issue == EncoderRests /\ NavRests /\ HarnessStep /\ UNCHANGED <<vars, navVars>>
Rotate == EncoderRests /\ NavRests /\ RotateKeys /\ UNCHANGED <<vars, navVars>>

ClientsNext == Encode \/ Browse \/ Issue \/ Rotate

ClientsSpec ==
  ClientsInit /\ [][ClientsNext]_<<vars, navVars, harnessVars>>
  /\ WF_<<vars, navVars, harnessVars>>(Issue)
===============================================================================
