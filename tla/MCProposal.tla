------------------------------ MODULE MCProposal ------------------------------
\* Values TLC gives to the constants of Proposal.
EXTENDS Proposal
MCRoots == <<"target">>
=============================================================================
