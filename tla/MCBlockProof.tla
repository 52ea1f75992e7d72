------------------------------ MODULE MCBlockProof ------------------------------
(* An instance of BlockProof for TLC: four chains that share some of what   *)
(* they have, with up to four transactions in the block, every type of      *)
(* receipt, paths of odd and even length, a leaf right at the root and an   *)
(* entity that is not there.                                                *)
EXTENDS BlockProof

a == <<"a">>
b == <<"b">>
c == <<"c">>
d == <<"d">>

MCTransactions == {a, b, c, d}
Of(types, version) == [types |-> types, version |-> version]
MCReceipts ==
    <<Of(<<"Harvest_Fee">>, 0), Of(<<"LockHash_Created">>, 0), Of(<<"LockHash_Completed">>, 0),
      Of(<<"LockHash_Expired">>, 0), Of(<<"LockSecret_Created">>, 0), Of(<<"LockSecret_Completed">>, 0),
      Of(<<"LockSecret_Expired">>, 0), Of(<<"Mosaic_Rental_Fee">>, 0), Of(<<"Mosaic_Levy">>, 0), Of(<<"Namespace_Rental_Fee">>, 0),
      Of(<<"Mosaic_Expired">>, 0), Of(<<"Namespace_Expired">>, 0), Of(<<"Namespace_Deleted">>, 0),
      Of(<<"Inflation">>, 0), Of(<<"Address_Alias_Resolution">>, 0), Of(<<"Mosaic_Alias_Resolution">>, 0),
      Of(<<"Harvest_Fee", "Inflation">>, 1), Of(<<"Mosaic_Rental_Fee", "Harvest_Fee">>, 0)>>
MCStatements == ToSet(MCReceipts)
Fork(nibbles, bit, others) == [nibbles |-> nibbles, bit |-> bit, others |-> others]

MCChains ==
    {[transactions |-> <<a, b, c>>, receipts |-> MCReceipts, entity |-> 0, root |-> TRUE,
      children |-> {<<3>>, <<1>>, <<1, 4>>, <<3, 2>>, <<1, 2>>},
      branches |-> <<Fork(<<>>, 10, {0, 15}), Fork(<<5, 11>>, 3, {4}), Fork(<<7>>, 8, {1})>>, nibbles |-> <<1, 15, 2>>],
     [transactions |-> <<a, c, b, d>>, receipts |-> <<Of(<<"Harvest_Fee", "Inflation">>, 1)>>, entity |-> 1, root |-> TRUE,
      children |-> {<<3>>}, branches |-> <<Fork(<<10>>, 5, {9, 14})>>, nibbles |-> <<11, 3>>],
     [transactions |-> <<b>>, receipts |-> <<Of(<<"Inflation">>, 0)>>, entity |-> 0, root |-> FALSE,
      children |-> {}, branches |-> <<>>, nibbles |-> <<10, 5, 11, 3>>],
     [transactions |-> <<>>, receipts |-> <<>>, entity |-> Absent, root |-> FALSE,
      children |-> {}, branches |-> <<Fork(<<1, 2, 3>>, 2, {4, 5})>>, nibbles |-> <<>>]}
=============================================================================
