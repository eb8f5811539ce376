\* The table of NGX_ESCAPE_REFRESH and the comment above it.
\* CHECK_DEADLOCK: a text is processed once.
SPECIFICATION Spec
CONSTANTS
  Text <- MCText
  Quoted <- MCQuoted
INVARIANT RefreshAsCommented
CHECK_DEADLOCK FALSE
