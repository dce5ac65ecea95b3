------------------------------ MODULE MCRegistry ------------------------------
(* Instances of Registry: the collector objects and what they declare. *)
EXTENDS Registry, TLC

CONSTANTS a, b, c, d, NoName,           \* names
          objA, objB, objC, objD,       \* collectors with these names
          objA2,                        \* another collector named a
          objNone                       \* a collector with an empty name

MCNameOf == objA :> a @@ objB :> b @@ objC :> c @@ objD :> d
            @@ objA2 :> a @@ objNone :> NoName

\* b and c need a; the other a needs b, and the two are a cycle if it gets in
\* first.
RaceDepsOf == objA :> <<>> @@ objB :> <<a>> @@ objC :> <<a>> @@ objA2 :> <<b>> @@ objNone :> <<>>

\* d needs b and c, which both need a; b lists it twice.
DiamondDepsOf == objA :> <<>> @@ objB :> <<a, a>> @@ objC :> <<a>> @@ objD :> <<b, c>>
=============================================================================
