--------------------------- MODULE MCPolicyVault ---------------------------
(* Symmetry for the safety runs of PolicyVault: the vault treats wallets,   *)
(* payers and payees of one kind alike.                                     *)
EXTENDS PolicyVault, TLC

Symmetry == Permutations(Users) \cup Permutations(Payers)
              \cup Permutations(Payees) \cup Permutations(Relays)
=============================================================================
