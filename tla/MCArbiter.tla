----------------------------- MODULE MCArbiter -----------------------------
(* The arbiter alone with three clients and unconstrained inputs. *)
EXTENDS Arbiter
============================================================================
