---------------------------- MODULE MCWalletNFTs ----------------------------
(* An ERC-721 and two ERC-1155 tokens of two contracts, one to a page.     *)
EXTENDS WalletNFTs

CONSTANTS n1, m1, m2

MCContract == [t \in Tokens |-> IF t = n1 THEN "art" ELSE "items"]
=============================================================================
