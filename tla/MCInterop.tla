----------------------------- MODULE MCInterop -----------------------------
(* Interop for TLC: each role on each backend. *)
EXTENDS Interop

MixedBuilds == {<<"native", "wasm">>, <<"wasm", "native">>}
=============================================================================
