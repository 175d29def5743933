-------------------------- MODULE MCProfilePicture --------------------------
(* ProfilePicture on a small instance.                                      *)
EXTENDS ProfilePicture, TLC

\* Saves are interchangeable, and so are pictures.
PictureSymmetry == Permutations(Jobs) \cup Permutations(Pictures)

=============================================================================
