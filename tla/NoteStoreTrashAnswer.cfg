\* One note and two handlers: a delete that finds the note locked, and an unlock.
CONSTANTS
  Note = {n1}
  Content = {c1}
  Request = {r1, r2}
SPECIFICATION Spec
INVARIANT TrashAnswerIsTrue
