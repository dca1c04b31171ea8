\* One note and one handler: a restore is a single statement and needs none.
CONSTANTS
  Note = {n1}
  Content = {c1}
  Request = {r1}
SPECIFICATION Spec
PROPERTY OnlyTrashedNotesAreDeleted
