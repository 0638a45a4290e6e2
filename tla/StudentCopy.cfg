\* An export and the import of what it wrote.
SPECIFICATION FilesSpec
CONSTANTS
  Slots = {s1}
  Files = {f1, f2}
  Shipped = f1
  Works = {w1}
  tutorial = tutorial
  community = community
  session = session
  Tutorial <- McTutorial
  Community <- McCommunity
  Saved <- McSaved
  FreeMb = {1000, 8000}
  Counts = {1, 21}
  Nothing = Nothing
  MaxAsks = 3
INVARIANT StudentCopyStarts
