------------------------------ MODULE SharedAlloc ------------------------------
(***************************************************************************)
(* smalloc.c: how long a block of shared memory is mapped for an array. A  *)
(* size_t is a number below Word, and a size_t with the length is stored   *)
(* in front of the block. The result is the length, or None.               *)
(***************************************************************************)
EXTENDS Integers

CONSTANTS Word,    \* 2^64
          Prefix,  \* sizeof(size_t)
          None     \* NULL

ASSUME WordAssumption == Word \in Nat /\ Prefix \in 1..Word - 1 /\ None \notin Nat

Sizes == 0..Word - 1

Smalloc(size) == IF size = 0 THEN None ELSE (Prefix + size) % Word

(* Mutant: the product is compared with nothing.                           *)
WrapsNever(nmemb, size) == FALSE

Wraps(nmemb, size) == ((nmemb * size) % Word) \div nmemb # size

Scalloc(nmemb, size) ==
    IF nmemb = 0 \/ size = 0 THEN None
    ELSE IF Wraps(nmemb, size) THEN None
    ELSE Smalloc((nmemb * size) % Word)

(* An array is given the memory it asks for, with the prefix, or nothing:  *)
(* the product never wraps unnoticed. The sum may, but only for sizes that *)
(* come within a prefix of Word (smalloc.c:19-61).                         *)
ArrayFits(nmemb, size) ==
    \/ Scalloc(nmemb, size) = None
    \/ Scalloc(nmemb, size) = nmemb * size + Prefix
    \/ nmemb * size \in Word - Prefix..Word - 1
=============================================================================
