---------------------------- MODULE MCVersionInfo ----------------------------
(* Small instances of VersionInfo for TLC. *)
EXTENDS VersionInfo

MCKeyBytes == [VS_VERSION_INFO |-> 30, a |-> 2, b |-> 2] @@ ("" :> 0)

B(tot, val, key) == [wTotLen |-> tot, wValLen |-> val, szKey |-> key]

\* Blocks without a length, with a key, a value, both or neither, with an odd length,
\* not padded, with room for other blocks, and longer than what is left.
Blocks == {B(0, 0, ""), B(8, 0, ""), B(10, 0, "a"), B(12, 0, "a"), B(13, 1, "b"), B(16, 4, "a"),
           B(16, 0, ""), B(24, 0, "b"), B(16, 8, "a"), B(40, 0, "")}

\* A head with 24 bytes behind it, and two that are too short or not the right one.
Heads == {B(116, 52, "VS_VERSION_INFO"), B(109, 52, "VS_VERSION_INFO"),
          B(92, 48, "VS_VERSION_INFO"), B(120, 52, "VS_VERSION_INFO")}
Offsets == {92, 96, 100, 104, 108, 112, 116}

\* The bodies, filled in where the walk may come to: what is elsewhere makes no
\* difference.  Empty is what lies behind the resource.
Empty == B(8, 0, "")
Followers(m) == UNION {{p + DWORDUP(m[p].wTotLen),
                        p + DWORDUP(DWORDUP(sizeofVERBLOCK + KeyBytes[m[p].szKey]) + m[p].wValLen)} :
                         p \in DOMAIN m}
RECURSIVE Fill(_)
Fill(m) ==
  LET open == ((Followers(m) \union {92}) \intersect Offsets) \ DOMAIN m IN
  IF open = {}
  THEN {[o \in Offsets |-> IF o \in DOMAIN m THEN m[o] ELSE Empty]}
  ELSE UNION {Fill((Min(open) :> x) @@ m) : x \in IF Min(open) < 112 THEN Blocks ELSE {Empty}}

Bodies == Fill(<<>>)
MCResources == {[size |-> 116, at |-> (0 :> h) @@ m] : h \in Heads, m \in Bodies}
MCPaths == {<<>>, <<<<"*">>>>, <<<<"a">>>>, <<<<"b">>>>, <<<<"#", 1>>>>, <<<<"#", -1>>>>,
            <<<<"*">>, <<"a">>>>, <<<<"b">>, <<"#", 1>>>>, <<<<"#", 2>>, <<"*">>>>}
=============================================================================
