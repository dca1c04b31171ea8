\* Two notes (Empty has a first and a second deletion) and two concurrent
\* handlers.  One content is enough: a rewrite also shows in the age it resets.
CONSTANTS
  Note = {n1, n2}
  Content = {c1}
  Request = {r1, r2}
SPECIFICATION Spec
INVARIANTS TypeOK AnswersMatchEffects
PROPERTIES LockHolds RetentionHonoured ImplementsLifecycle TrashedNotesLeave StaleNotesGetLocked
