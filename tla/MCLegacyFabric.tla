---------------------------- MODULE MCLegacyFabric ----------------------------
(* Two paths that cannot both be put, two files that share a block; the    *)
(* smaller file is published over the larger one, which is put again.      *)
EXTENDS LegacyFabric

CONSTANTS a, b

MCPaths == {1, 2}
MCClashes == {<<1, 2>>}
MCBlocks == {a, b}
MCContents == {{a}, {a, b}}
MCPuts == {<<1, {a, b}>>, <<2, {a}>>}
MCPublications == {<<1, {a}>>, <<1, {a, b}>>}
MCBypasses == {<<1, {a}>>, <<2, None>>}
=============================================================================
