SPECIFICATION SpecAll
CONSTANTS
  f = f
  g = g
  d = d
  Root = root
  File = {f, g}
  Folder = {d}
  FolderOf <- MCFolderOf
  MaxSize <- MCMaxSize
  MaxTime = 2
INVARIANTS UnchangedIsSame SoundSetsAccepted RestoredAsBackedUp
