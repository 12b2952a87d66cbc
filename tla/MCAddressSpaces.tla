-------------------------- MODULE MCAddressSpaces --------------------------
EXTENDS AddressSpaces, TLC

\* The LAPIC's window, in the identity map's last directory.
MCMmio == [v \in {26} |-> v + 300]

MCSymmetry == Permutations(Spaces)
=============================================================================
