--------------------------- MODULE MCAssetsManager ---------------------------
(* Small instances of AssetsManager for TLC. *)
EXTENDS AssetsManager

CONSTANTS l1, l2

(* A key of each kind; a URL is removed whatever _removeUnusedLocalAssets is. *)
SomeKeys == {[kind |-> "url", removeUnused |-> FALSE], [kind |-> "local", removeUnused |-> FALSE],
             [kind |-> "remote", removeUnused |-> TRUE]}
LocalKey == {[kind |-> "local", removeUnused |-> FALSE]}

OneLocation  == {l1}
TwoLocations == {l1, l2}
=============================================================================
