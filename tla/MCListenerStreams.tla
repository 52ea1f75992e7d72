--------------------------- MODULE MCListenerStreams ----------------------------
(* Instances of ListenerStreams for TLC.                                    *)
EXTENDS ListenerStreams

CONSTANTS alice, bob, multi,   \* two accounts and a multisig account of both
          fromAlice, fromBob,    \* a transfer of each to the multisig account
          block

MCInvolved   == fromAlice :> {alice, multi} @@ fromBob :> {bob, multi} @@ block :> {NoAddress}
MCRecognised == MCInvolved
MCMultisigOf == alice :> {multi} @@ bob :> {multi} @@ multi :> {} @@ NoAddress :> {}

AskFor(c, a, m, h) == [channel |-> c, owner |-> a, multisig |-> m, hash |-> h]

\* Two accounts on the same channel of one Listener, one of them with its multisig
\* account, beside two streams of hashes, one of which waits for one transaction; the
\* node reports fromAlice added twice (a roll-back confirms a transaction again).
TransactionStreams ==
    {AskFor("added", alice, TRUE, AnyHash), AskFor("added", bob, FALSE, AnyHash),
     AskFor("removed", bob, FALSE, fromBob), AskFor("removed", multi, FALSE, AnyHash)}

\* A stream of transactions with one of its errors, of its cosignatures and of blocks; a
\* cosignature is reported twice, by two cosigners.
OtherStreams ==
    {AskFor("added", bob, FALSE, AnyHash), AskFor("status", bob, FALSE, fromBob),
     AskFor("cosignature", multi, FALSE, AnyHash), AskFor("block", NoAddress, FALSE, AnyHash)}

AllStreams == TransactionStreams \union OtherStreams
AllScenes == {TransactionStreams, OtherStreams}
AllReports == [n \in Channels \X Transactions |->
                 CASE n = <<"added", fromAlice>> -> 2
                   [] n[1] = "block" -> IF n[2] = block THEN 1 ELSE 0
                   [] n[2] = block \/ n = <<"removed", fromAlice>> -> 0
                   [] n = <<"cosignature", fromAlice>> -> 2
                   [] n \in {<<"cosignature", fromBob>>, <<"status", fromAlice>>} -> 0
                   [] OTHER -> 1]
=============================================================================
