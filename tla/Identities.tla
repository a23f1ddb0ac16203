----------------------------- MODULE Identities -----------------------------
(***************************************************************************)
(* The identities an authority context carries (authority.hpp) and that    *)
(* the records and the authority tables share.                             *)
(***************************************************************************)

CONSTANTS
  Publishers,      \* stable publisher identities
  Boots,           \* worker boot identities
  Attempts,        \* mutation attempt identities requests may carry
  InitialAttempt   \* the attempt that produced the record a behaviour starts from

ASSUME IdentitiesAssumption == InitialAttempt \notin Attempts

=============================================================================
