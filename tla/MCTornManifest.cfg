SPECIFICATION Spec
CONSTANT MaxRuns = 3
INVARIANT NewFoldersForEachTurnOn
