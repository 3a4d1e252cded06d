CONSTANTS
    t1 = t1  t2 = t2  a = a  b = b
    n1 = n1  n2 = n2  n3 = n3  n4 = n4  n5 = n5
    Tasks <- MCTasks
    Names <- MCNames
    NodeIds <- MCNodeIds
    NoNode = NoNode
    MaxCount = 3

SPECIFICATION Spec
SYMMETRY MCSymmetry


INVARIANT HeldNodesInTree
