---------------------------- MODULE MCRevocation ----------------------------
(* Revocation for TLC: a root and an intermediate authority, the bundles they *)
(* sign one after the other, and a few stray ones.                            *)
EXTENDS Revocation, TLC

CONSTANTS root, inter, x, y, c1, c2

crl(number, revoked, next) == [number |-> number, revoked |-> revoked, next |-> next]
bundle(r, i) == (root :> r) @@ (inter :> i)

\* A first snapshot, one that revokes x, one that only runs longer; then one that
\* drops x again, one that reuses a number and one without the root.
MCBundles == {
    bundle(crl(1, {}, 1), crl(1, {}, 2)),
    bundle(crl(1, {}, 1), crl(2, {x}, 2)),
    bundle(crl(2, {}, 2), crl(2, {x}, 2)),
    bundle(crl(2, {}, 2), crl(3, {}, 2)),
    bundle(crl(1, {}, 2), crl(2, {y}, 2)),
    bundle(NoCRL, crl(1, {}, 2)) }

\* Two leaves under the intermediate authority, which the root issued.
MCChain == (c1 :> {<<inter, x>>, <<root, y>>}) @@ (c2 :> {<<inter, y>>, <<root, y>>})

\* One applier, the expiry of its snapshots and a program that closes the manager; two
\* appliers at one time.  One transport stalls in its Close.
MCEnvironments == {
    [appliers |-> {"reload"}, stalling |-> {c1}, mayClose |-> TRUE, maxTime |-> 2],
    [appliers |-> {"reload", "other"}, stalling |-> {c1}, mayClose |-> FALSE, maxTime |-> 0] }
=============================================================================
