SPECIFICATION RedundancySpec
CONSTANT MaxChanges = 5
INVARIANT BothDownIsError
