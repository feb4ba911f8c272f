------------------------------ MODULE ReleaseBook ------------------------------
(***************************************************************************)
(* What publication promises: every commit has at most one image and at    *)
(* most one release; an image belongs to one commit; what a commit's image *)
(* is never changes, and a release is of the image its commit already has. *)
(***************************************************************************)
CONSTANTS Commits, Images, NoImage

VARIABLES
    image,      \* image[c]: the image pushed for commit c
    released    \* the commits with a release

\* Some commits may be released already.
Init ==
    /\ image \in [Commits -> Images \union {NoImage}]
    /\ \A c, d \in Commits : image[c] = image[d] => c = d \/ image[c] = NoImage
    /\ released \subseteq {c \in Commits : image[c] # NoImage}

Push(c) ==
    /\ image[c] = NoImage
    /\ \E i \in Images \ {image[d] : d \in Commits} : image' = [image EXCEPT ![c] = i]
    /\ UNCHANGED released

Release(c) ==
    /\ image[c] # NoImage
    /\ released' = released \union {c}
    /\ UNCHANGED image

Next == \E c \in Commits : Push(c) \/ Release(c)
Spec == Init /\ [][Next]_<<image, released>>

=============================================================================
